---------------------------- MODULE Spec2Model ----------------------------
(***************************************************************************)
(* A model of the travel-planning backend: the extraction merger           *)
(* (_merge_extracted_info), the quality gate (check_info_quality), the     *)
(* search -> extract -> gate -> plan graph (create_travel_graph) and the   *)
(* travel-plan tool that wraps it (TravelPlanTool._run).                    *)
(*                                                                         *)
(* Python values are modelled as follows.  A dict with a fixed set of keys *)
(* is a record; a missing key and an empty value ("" for a string, <<>>    *)
(* for a list) are the same value, because the code reads every key with   *)
(* .get(key, default) and tests it for truthiness.  A nested dict that may *)
(* be absent (transportation, accommodation, food) carries a field         *)
(* "present": whether the dict is truthy.  A list is a sequence.           *)
(***************************************************************************)
EXTENDS Integers, Sequences, FiniteSets, TLC

VARIABLES
    \* ---- the merger driven on its own (SpecMerge, SpecPlaces) ----
    existing,       \* the accumulator before the last merge
    extracted,      \* the payload of the last merge
    merged,         \* the accumulator after the last merge
    remerged,       \* the last payload merged once more into `merged`
    merges,         \* number of merges done
    \* ---- the quality gate driven on its own (SpecGate) ----
    gate_info,      \* state["extracted_info"] handed to check_info_quality
    gate_count,     \* state["_search_count"]
    gate_max,       \* state["_max_searches"]
    gate_out,       \* what check_info_quality returned, NotCalled before
    \* ---- one planning run (Spec) ----
    pc,               \* where the run is: start, search, extract, check, plan,
                      \* end (graph finished), raised (a node raised), returned
    entry,            \* who starts the run: one of the two TravelPlanTool
                      \* classes, or graph.invoke called directly
    session_id,       \* the session id of the request, "" when there is none
    graph,            \* whether the tool was given a travel graph
    redis_connected,  \* redis_service.is_connected()
    max_searches,     \* state["_max_searches"]
    search_count,     \* state["_search_count"]
    searched_queries, \* state["_searched_queries"]
    missing_info,     \* state["_missing_info"]
    search_results,   \* titles of state["search_results"].notes
    extracted_info,   \* state["extracted_info"]
    final_result,     \* state["final_result"]: None or how the plan was made
    current_plan_id,  \* state["current_plan_id"]
    response,         \* what TravelPlanTool._run gave its caller
    \* history of the run, recorded for the properties
    search_runs,      \* executions of search_node
    extract_runs,     \* executions of extract_node
    plan_runs,        \* executions of plan_node
    edge,             \* the last return of check_info_quality
    round_queries,    \* the queries search_node issued in its last execution
    passed_missing,   \* missing_info handed to generate_supplement_queries
    last_extract,     \* how the last extract_node execution went
    \* ---- plan_node's result driven on its own (SpecPlan) ----
    user_days,        \* user.days
    plan_extracted,   \* state["extracted_info"] read by plan_node
    plan_output,      \* what llm.invoke and _safe_parse_json gave plan_node
    plan_result,      \* state["final_result"], NoResult before plan_node
    \* ---- _safe_parse_json driven on its own (SpecParse) ----
    parse_doc,        \* how the text was written (what its author meant)
    parse_content,    \* the text handed to _safe_parse_json
    parse_out,        \* what _safe_parse_json returned, NotParsed before
    \* ---- a TokenBudget driven on its own (SpecBudget) ----
    budget,           \* the TokenBudget object
    budget_log,       \* the consume calls made so far, <<stage, tokens>> each
    \* ---- filter_and_compress driven on its own (SpecFilter) ----
    filter_notes,     \* the notes handed to filter_and_compress
    filter_max,       \* max_notes
    filter_required,  \* required_categories, <<>> when not given
    filter_out,       \* what filter_and_compress returned, NotFiltered before
    \* ---- the query loop of search_node driven on its own (SpecSearch) ----
    search_replies,   \* per query of the round: what the cache and the provider give
    search_out,       \* what the loop and the filter did, NotSearched before
    \* ---- the query generator with a failing LLM (SpecQueries) ----
    gen_round,        \* the search round the queries are generated for
    gen_missing,      \* state["_missing_info"] read by search_node
    gen_out,          \* the queries the generator returned, NotGenerated before
    \* ---- _safe_int driven on its own (SpecLikes) ----
    likes_in,         \* the value handed to _safe_int
    likes_out,        \* what _safe_int gave, NoLikes before
    \* ---- _evaluate_single_note driven on its own (SpecScore) ----
    score_note,       \* the features of the base note
    score_more,       \* the five keywords the richer note adds
    score_targets,    \* the evaluator's target_categories
    score_out,        \* the two final scores, NoScore before
    \* ---- one schedule item driven on its own (SpecSchedule) ----
    sched_in,         \* the schedule item as the LLM, or the extraction, gave it
    sched_out,        \* the schedule of the final plan, NoSchedule before
    \* ---- the note merge of search_node over several rounds (SpecNotes) ----
    notes_acc,        \* state['search_results'].notes
    notes_last,       \* the filtered notes of the last round
    notes_round,      \* rounds so far
    \* ---- _compress_content driven on its own (SpecCompress) ----
    comp_content,     \* the paragraphs of the content
    comp_max,         \* max_chars
    comp_out,         \* the length of the text returned, NotCompressed before
    \* ---- MultiPlanStore on the hash of one session (SpecStore, SpecRace) ----
    store_hash,       \* the Redis hash of the session
    store_ops,        \* calls begun so far
    store_call,       \* for each caller, the call it is in
    \* ---- the chat endpoint and the shared tool instance (SpecChat) ----
    tool_session,     \* _current_session_id of the tool instance
    chat_req          \* for each request, where its handler is

mergeVars == <<existing, extracted, merged, remerged, merges>>
gateVars == <<gate_info, gate_count, gate_max, gate_out>>
runVars == <<pc, entry, session_id, graph, redis_connected, max_searches,
             search_count, searched_queries, missing_info, search_results,
             extracted_info, final_result, current_plan_id, response,
             search_runs, extract_runs, plan_runs, edge, round_queries,
             passed_missing, last_extract>>

planVars == <<user_days, plan_extracted, plan_output, plan_result>>

\* the variables of the components driven on their own
parseVars == <<parse_doc, parse_content, parse_out>>
budgetVars == <<budget, budget_log>>
filterVars == <<filter_notes, filter_max, filter_required, filter_out>>
loopVars == <<search_replies, search_out>>
genVars == <<gen_round, gen_missing, gen_out>>
likesVars == <<likes_in, likes_out>>
scoreVars == <<score_note, score_more, score_targets, score_out>>
schedVars == <<sched_in, sched_out>>
noteVars == <<notes_acc, notes_last, notes_round>>
compVars == <<comp_content, comp_max, comp_out>>
storeVars == <<store_hash, store_ops, store_call>>
chatVars == <<tool_session, chat_req>>
unitVars == <<planVars, parseVars, budgetVars, filterVars, loopVars, genVars,
             likesVars,
             scoreVars,
             schedVars,
             noteVars,
             compVars,
             storeVars,
             chatVars>>

vars == <<mergeVars, gateVars, runVars, unitVars>>

-----------------------------------------------------------------------------
(* Sequence helpers *)

Range(s) == {s[i] : i \in DOMAIN s}

\* list(set(...)): the elements of a set in some fixed order.
RECURSIVE SetToSeq(_)
SetToSeq(S) ==
    IF S = {} THEN <<>>
    ELSE LET x == CHOOSE y \in S : TRUE
         IN  <<x>> \o SetToSeq(S \ {x})

\* The multiset of a list's entries (order of a set-derived list is not
\* specified by Python, multiplicity is).
BagOfSeq(s) == [x \in Range(s) |-> Cardinality({i \in DOMAIN s : s[i] = x})]

NoDup(s) == \A i, j \in DOMAIN s : s[i] = s[j] => i = j

-----------------------------------------------------------------------------
(* The accumulator (state["extracted_info"]) and an extraction payload *)

PlaceKeys == {"name", "ticket", "open_time", "closed_day", "duration", "tips"}
DetailKeys == PlaceKeys \ {"name"}

NoTransportation == [present |-> FALSE, arrival |-> "", local |-> <<>>]
NoAccommodation == [present |-> FALSE, recommended_areas |-> <<>>, tips |-> <<>>]
NoFood == [present |-> FALSE, specialties |-> <<>>, restaurants |-> <<>>,
           streets |-> <<>>]

\* extracted_info = None, or {} (both falsy, both read through .get):
\* hasKeys says whether a merge has already set routes/places/avoid/tips.
EmptyInfo ==
    [hasKeys |-> FALSE, routes |-> <<>>, places |-> <<>>,
     transportation |-> NoTransportation, accommodation |-> NoAccommodation,
     food |-> NoFood, avoid |-> <<>>, tips |-> <<>>]

-----------------------------------------------------------------------------
(* _merge_extracted_info, one operator per section of the function *)

RouteKey(r) == <<r.source, r.days>>

\* routes: append a route whose (source, days) key is unseen.
RECURSIVE MergeRoutes(_, _)
MergeRoutes(existing_routes, new_routes) ==
    IF new_routes = <<>> THEN existing_routes
    ELSE LET route == Head(new_routes)
             seen  == {RouteKey(r) : r \in Range(existing_routes)}
         IN  MergeRoutes(IF RouteKey(route) \in seen
                            THEN existing_routes
                            ELSE Append(existing_routes, route),
                         Tail(new_routes))

\* for k, v in place.items(): if v and not existing_places[name].get(k)
FillPlaceOverwrite(old, place) ==
    [k \in PlaceKeys |-> IF place[k] # "" THEN place[k] ELSE old[k]]

FillPlace(old, place) ==
    [k \in PlaceKeys |-> IF place[k] # "" /\ old[k] = "" THEN place[k] ELSE old[k]]

\* places: keyed by name; a nameless record is skipped.
RECURSIVE MergePlaces(_, _)
MergePlaces(existing_places, new_places) ==
    IF new_places = <<>> THEN existing_places
    ELSE LET place == Head(new_places)
             at    == {i \in DOMAIN existing_places :
                           existing_places[i].name = place.name}
         IN  MergePlaces(
                 IF place.name = "" THEN existing_places
                 ELSE IF at # {}
                      THEN [i \in DOMAIN existing_places |->
                               IF i \in at
                                  THEN FillPlace(existing_places[i], place)
                                  ELSE existing_places[i]]
                      ELSE Append(existing_places, place),
                 Tail(new_places))

\* transportation: adopted as it is when the accumulator has none; else the
\* longer arrival wins and local is a set union.
MergeTransportation(old, new) ==
    IF ~new.present THEN old
    ELSE IF ~old.present THEN new
    ELSE [present |-> TRUE,
          arrival |-> IF new.arrival # "" /\ Len(new.arrival) > Len(old.arrival)
                         THEN new.arrival ELSE old.arrival,
          local   |-> IF new.local # <<>>
                         THEN SetToSeq(Range(old.local) \cup Range(new.local))
                         ELSE old.local]

\* one recommended area merged into an existing area of the same name
MergeArea(old, area) ==
    [area        |-> old.area,
     reasons     |-> SetToSeq(Range(old.reasons) \cup Range(area.reasons)),
     nearby      |-> SetToSeq(Range(old.nearby) \cup Range(area.nearby)),
     transport   |-> IF area.transport # "" /\ old.transport = ""
                        THEN area.transport ELSE old.transport,
     price_range |-> IF area.price_range # "" /\ old.price_range = ""
                        THEN area.price_range ELSE old.price_range]

RECURSIVE MergeAreas(_, _)
MergeAreas(existing_areas, new_areas) ==
    IF new_areas = <<>> THEN existing_areas
    ELSE LET area == Head(new_areas)
             at   == {i \in DOMAIN existing_areas :
                          existing_areas[i].area = area.area}
         IN  MergeAreas(
                 IF area.area = "" THEN existing_areas
                 ELSE IF at # {}
                      THEN [i \in DOMAIN existing_areas |->
                               IF i \in at
                                  THEN MergeArea(existing_areas[i], area)
                                  ELSE existing_areas[i]]
                      ELSE Append(existing_areas, area),
                 Tail(new_areas))

MergeAccommodation(old, new) ==
    IF ~new.present THEN old
    ELSE [present           |-> TRUE,
          recommended_areas |-> MergeAreas(old.recommended_areas,
                                           new.recommended_areas),
          tips              |-> SetToSeq(Range(old.tips) \cup Range(new.tips))]

\* specialties, streets and avoid: an item is a dict with a name (item) or a
\* bare string; [isDict, name].  Append when the name is non-empty and unseen.
RECURSIVE MergeNamed(_, _)
MergeNamed(existing_items, new_items) ==
    IF new_items = <<>> THEN existing_items
    ELSE LET item  == Head(new_items)
             names == {x.name : x \in Range(existing_items)}
         IN  MergeNamed(IF item.name # "" /\ item.name \notin names
                           THEN Append(existing_items, item)
                           ELSE existing_items,
                        Tail(new_items))

\* restaurants: only dict items are kept, and only dict items are compared.
RECURSIVE MergeRestaurants(_, _)
MergeRestaurants(existing_items, new_items) ==
    IF new_items = <<>> THEN existing_items
    ELSE LET item  == Head(new_items)
             names == {x.name : x \in {y \in Range(existing_items) :
                                           y.isDict /\ y.name # ""}}
         IN  MergeRestaurants(
                 IF item.isDict /\ item.name # "" /\ item.name \notin names
                    THEN Append(existing_items, item)
                    ELSE existing_items,
                 Tail(new_items))

MergeFood(old, new) ==
    IF ~new.present THEN old
    ELSE [present     |-> TRUE,
          specialties |-> MergeNamed(old.specialties, new.specialties),
          restaurants |-> MergeRestaurants(old.restaurants, new.restaurants),
          streets     |-> MergeNamed(old.streets, new.streets)]

MergeTips(old, new) == SetToSeq(Range(old) \cup Range(new))

merge_extracted_info(old, new) ==
    [hasKeys        |-> TRUE,
     routes         |-> MergeRoutes(old.routes, new.routes),
     places         |-> MergePlaces(old.places, new.places),
     transportation |-> MergeTransportation(old.transportation,
                                            new.transportation),
     accommodation  |-> MergeAccommodation(old.accommodation, new.accommodation),
     food           |-> MergeFood(old.food, new.food),
     avoid          |-> MergeNamed(old.avoid, new.avoid),
     tips           |-> MergeTips(old.tips, new.tips)]

-----------------------------------------------------------------------------
(* check_info_quality: the conditional edge after extract_node *)

ValidRoutes(info) == {i \in DOMAIN info.routes : info.routes[i].daily_plan # <<>>}

FoodCount(info) ==
    Len(info.food.specialties) + Len(info.food.restaurants) + Len(info.food.streets)

ValidAreas(info) ==
    {i \in DOMAIN info.accommodation.recommended_areas :
         info.accommodation.recommended_areas[i].area # ""}

\* the `missing` list, built check by check in the order of the code
MissingRoutes(info) ==
    IF Cardinality(ValidRoutes(info)) < 1 THEN <<"places">> ELSE <<>>

MissingPlaces(info, missing) ==
    IF Len(info.places) < 3 /\ Cardinality(ValidRoutes(info)) < 1
          /\ "places" \notin Range(missing)
       THEN Append(missing, "places") ELSE missing

MissingFood(info, missing) ==
    IF FoodCount(info) < 2 THEN Append(missing, "food") ELSE missing

MissingAccommodation(info, missing) ==
    IF Cardinality(ValidAreas(info)) < 1
       THEN Append(missing, "accommodation") ELSE missing

MissingTransportation(info, count, missing) ==
    IF count >= 2
          /\ (~info.transportation.present \/ info.transportation.arrival = "")
       THEN Append(missing, "transportation") ELSE missing

MissingInfo(info, count) ==
    MissingTransportation(info, count,
        MissingAccommodation(info,
            MissingFood(info,
                MissingPlaces(info, MissingRoutes(info)))))

\* the hard stop tested with > instead of >=
check_info_quality_late(info, count, limit) ==
    IF count > limit
       THEN [result |-> "enough", missing |-> <<>>]
       ELSE IF MissingInfo(info, count) # <<>>
            THEN [result |-> "need_more", missing |-> MissingInfo(info, count)]
            ELSE [result |-> "enough", missing |-> <<>>]

\* result: the edge taken; missing: the list the function stores under
\* "_missing_info" of the state it was handed (only on need_more).
check_info_quality(info, count, limit) ==
    IF count >= limit
       THEN [result |-> "enough", missing |-> <<>>]
       ELSE IF MissingInfo(info, count) # <<>>
            THEN [result |-> "need_more", missing |-> MissingInfo(info, count)]
            ELSE [result |-> "enough", missing |-> <<>>]

-----------------------------------------------------------------------------
(* Extraction payloads: what _safe_parse_json hands to the merger *)

Payload(r, p, t, a, f, av, tp) ==
    [hasKeys |-> TRUE, routes |-> r, places |-> p, transportation |-> t,
     accommodation |-> a, food |-> f, avoid |-> av, tips |-> tp]

OnlyRoutes(r) == Payload(r, <<>>, NoTransportation, NoAccommodation, NoFood, <<>>, <<>>)
OnlyPlaces(p) == Payload(<<>>, p, NoTransportation, NoAccommodation, NoFood, <<>>, <<>>)
OnlyTransportation(t) == Payload(<<>>, <<>>, t, NoAccommodation, NoFood, <<>>, <<>>)
OnlyAccommodation(a) == Payload(<<>>, <<>>, NoTransportation, a, NoFood, <<>>, <<>>)
OnlyFood(f) == Payload(<<>>, <<>>, NoTransportation, NoAccommodation, f, <<>>, <<>>)
OnlyAvoid(av) == Payload(<<>>, <<>>, NoTransportation, NoAccommodation, NoFood, av, <<>>)
OnlyTips(tp) == Payload(<<>>, <<>>, NoTransportation, NoAccommodation, NoFood, <<>>, tp)

Route(s, d, plan) == [source |-> s, days |-> d, daily_plan |-> plan]

Place(n, k, v) ==
    [f \in PlaceKeys |-> IF f = "name" THEN n ELSE IF f = k THEN v ELSE ""]

Transportation(a, l) == [present |-> TRUE, arrival |-> a, local |-> l]

Area(n, rs, nb, tr, pr) ==
    [area |-> n, reasons |-> rs, nearby |-> nb, transport |-> tr, price_range |-> pr]

Accommodation(areas, tp) ==
    [present |-> TRUE, recommended_areas |-> areas, tips |-> tp]

Dict(n) == [isDict |-> TRUE, name |-> n]
Str(n) == [isDict |-> FALSE, name |-> n]

Food(sp, re, st) ==
    [present |-> TRUE, specialties |-> sp, restaurants |-> re, streets |-> st]

\* Place records: every detail field with two different values, a second
\* place, and a record without a name.
PlaceRecs ==
    {Place("Old Tower", k, v) : k \in DetailKeys, v \in {"", "free", "paid"}}
    \cup {Place("Lake", "ticket", v) : v \in {"", "free"}}
    \cup {Place("", "ticket", "free")}

PlacePayloads ==
    {OnlyPlaces(<<p>>) : p \in PlaceRecs}
    \cup {OnlyPlaces(<<Place("Old Tower", "ticket", ""),
                       Place("Old Tower", "ticket", "free")>>),
          OnlyPlaces(<<Place("Lake", "tips", "windy"),
                       Place("Old Tower", "duration", "paid"),
                       Place("Lake", "tips", "calm")>>)}

RoutePayloads ==
    {OnlyRoutes(<<Route("note1", 3, <<"d1", "d2", "d3">>)>>),
     OnlyRoutes(<<Route("note1", 3, <<>>)>>),
     OnlyRoutes(<<Route("note2", 2, <<"d1">>), Route("note2", 2, <<"d1">>)>>),
     OnlyRoutes(<<Route("", 0, <<>>)>>)}

TransportationPayloads ==
    {OnlyTransportation(Transportation("train", <<"metro">>)),
     OnlyTransportation(Transportation("high-speed train", <<"bus", "metro">>)),
     OnlyTransportation(Transportation("", <<"bus", "bus">>)),
     OnlyTransportation(Transportation("", <<>>))}

AccommodationPayloads ==
    {OnlyAccommodation(Accommodation(
         <<Area("Centre", <<"near metro">>, <<>>, "", "")>>, <<"book early">>)),
     OnlyAccommodation(Accommodation(
         <<Area("Centre", <<"quiet">>, <<"mall">>, "metro", "300")>>, <<>>)),
     OnlyAccommodation(Accommodation(
         <<Area("Centre", <<"quiet", "quiet">>, <<>>, "bus", "")>>,
         <<"book early", "book early">>)),
     OnlyAccommodation(Accommodation(
         <<Area("", <<"cheap">>, <<>>, "", "")>>, <<>>)),
     OnlyAccommodation(Accommodation(
         <<Area("Lakeside", <<>>, <<>>, "", ""),
           Area("Lakeside", <<"view">>, <<>>, "", "500")>>, <<>>))}

FoodPayloads ==
    {OnlyFood(Food(<<Dict("duck")>>, <<Dict("Old House")>>, <<>>)),
     OnlyFood(Food(<<Str("duck"), Str("duck")>>, <<Str("Old House")>>,
                   <<Str("Night Market")>>)),
     OnlyFood(Food(<<Dict("")>>, <<Dict("")>>, <<Dict("Night Market")>>)),
     OnlyFood(Food(<<>>, <<>>, <<>>))}

AvoidPayloads ==
    {OnlyAvoid(<<Dict("taxi touts")>>),
     OnlyAvoid(<<Str("taxi touts"), Dict("fake tickets"), Dict("fake tickets")>>),
     OnlyAvoid(<<Dict("")>>)}

TipsPayloads ==
    {OnlyTips(<<"bring cash">>), OnlyTips(<<"bring cash", "bring cash", "book ahead">>)}

\* one payload that fills every collection at once
FullPayload ==
    Payload(<<Route("note1", 3, <<"d1", "d2", "d3">>)>>,
            <<Place("Old Tower", "ticket", "free"), Place("Lake", "ticket", "")>>,
            Transportation("train", <<"metro">>),
            Accommodation(<<Area("Centre", <<"quiet">>, <<>>, "", "")>>, <<>>),
            Food(<<Dict("duck")>>, <<Dict("Old House")>>, <<>>),
            <<Dict("taxi touts")>>, <<"bring cash">>)

MergePayloads ==
    RoutePayloads \cup TransportationPayloads \cup AccommodationPayloads
    \cup FoodPayloads \cup AvoidPayloads \cup TipsPayloads
    \cup {FullPayload, EmptyInfo,
          OnlyPlaces(<<Place("Old Tower", "ticket", ""),
                       Place("Old Tower", "ticket", "free")>>)}

MaxMerges == 2
MaxPlaceMerges == 3

-----------------------------------------------------------------------------
(* The merger driven on its own: a sequence of merges from an empty         *)
(* accumulator, as extract_node does round after round.                     *)

MergeInit ==
    /\ existing = EmptyInfo
    /\ extracted = EmptyInfo
    /\ merged = EmptyInfo
    /\ remerged = EmptyInfo
    /\ merges = 0

\* merged = _merge_extracted_info(existing, extracted)
MergeStep(new, bound) ==
    /\ merges < bound
    /\ existing' = merged
    /\ extracted' = new
    /\ merged' = merge_extracted_info(merged, new)
    /\ remerged' = merge_extracted_info(merge_extracted_info(merged, new), new)
    /\ merges' = merges + 1

MergeNext ==
    /\ \E new \in MergePayloads : MergeStep(new, MaxMerges)
    /\ UNCHANGED <<gateVars, runVars, unitVars>>

PlacesNext ==
    /\ \E new \in PlacePayloads : MergeStep(new, MaxPlaceMerges)
    /\ UNCHANGED <<gateVars, runVars, unitVars>>

-----------------------------------------------------------------------------
(* The quality gate driven on its own: any accumulator one merge can build, *)
(* any round counter, any round limit.                                      *)

MaxGateRounds == 3

SomePlaces(n) == [i \in 1..n |-> Place(<<"Old Tower", "Lake", "Wall", "Museum">>[i],
                                       "ticket", "")]

GateRoutes ==
    {<<>>, <<Route("note1", 3, <<>>)>>, <<Route("note1", 3, <<"d1", "d2", "d3">>)>>,
     <<Route("note1", 3, <<>>), Route("note2", 2, <<"d1", "d2">>)>>}

GateTransportation ==
    {NoTransportation, Transportation("", <<"metro">>), Transportation("train", <<>>)}

GateAccommodation ==
    {NoAccommodation,
     Accommodation(<<Area("", <<"cheap">>, <<>>, "", "")>>, <<"book early">>),
     Accommodation(<<Area("Centre", <<>>, <<>>, "", "")>>, <<>>)}

GateFood ==
    {NoFood, Food(<<Dict("duck")>>, <<>>, <<>>),
     Food(<<Dict("duck")>>, <<>>, <<Str("Night Market")>>),
     Food(<<>>, <<Dict("Old House"), Dict("New House")>>, <<>>),
     Food(<<Dict("duck")>>, <<Str("Old House")>>, <<>>)}

GateAvoid == {<<>>, <<Dict("taxi touts")>>}

GatePayloads ==
    {Payload(r, SomePlaces(n), t, a, f, av, <<>>) :
        r \in GateRoutes, n \in 0..4, t \in GateTransportation,
        a \in GateAccommodation, f \in GateFood, av \in GateAvoid}

NotCalled == [result |-> "none", missing |-> <<>>]

GateInit ==
    /\ gate_info \in {EmptyInfo}
                     \cup {merge_extracted_info(EmptyInfo, new) : new \in GatePayloads}
    /\ gate_count \in 1..(MaxGateRounds + 1)
    /\ gate_max \in 0..MaxGateRounds
    /\ gate_out = NotCalled

GateCall ==
    /\ gate_out = NotCalled
    /\ gate_out' = check_info_quality(gate_info, gate_count, gate_max)
    /\ UNCHANGED <<gate_info, gate_count, gate_max>>

MergeIdle ==
    /\ existing = EmptyInfo /\ extracted = EmptyInfo /\ merged = EmptyInfo
    /\ remerged = EmptyInfo /\ merges = 0

GateIdle ==
    /\ gate_info = EmptyInfo /\ gate_count = 0 /\ gate_max = 0
    /\ gate_out = NotCalled

GateNext == GateCall /\ UNCHANGED <<mergeVars, runVars, unitVars>>




-----------------------------------------------------------------------------
(* LLMSearchQueryGenerator.  A query string is [lead, text]: `lead` blanks  *)
(* followed by `text`.  The generator compares strings as they are.         *)

Q(text) == [lead |-> 0, text |-> text]
Padded(text) == [lead |-> 1, text |-> text]

Take(s, n) == SubSeq(s, 1, IF Len(s) < n THEN Len(s) ELSE n)

RECURSIVE SelectUnseen(_, _)
\* [q for q in s if q not in seen]
SelectUnseen(s, seen) ==
    IF s = <<>> THEN <<>>
    ELSE IF Head(s) \in seen THEN SelectUnseen(Tail(s), seen)
         ELSE <<Head(s)>> \o SelectUnseen(Tail(s), seen)

RECURSIVE Unique(_, _)
\* the loop over all_queries with the `seen` set: first occurrences only
Unique(s, seen) ==
    IF s = <<>> THEN <<>>
    ELSE IF Head(s).text = "" \/ Head(s) \in seen THEN Unique(Tail(s), seen)
         ELSE <<Head(s)>> \o Unique(Tail(s), seen \cup {Head(s)})

fallback_core_queries ==
    <<Q("Nanjing 3 day guide"), Q("Nanjing food"), Q("Nanjing hotels"),
      Q("Nanjing sights")>>

Template(info) ==
    CASE info = "places" -> Q("Nanjing sights to see")
      [] info = "food" -> Q("Nanjing local food")
      [] info = "accommodation" -> Q("Nanjing hotel tips")
      [] info = "transportation" -> Q("Nanjing transport")
      [] info = "route" -> Q("Nanjing itinerary")
      [] info = "avoid" -> Q("Nanjing pitfalls")
      [] info = "tips" -> Q("Nanjing travel notes")
      [] OTHER -> Q("Nanjing guide")

fallback_supplement_queries(missing) ==
    [i \in 1..Len(Take(missing, 3)) |-> Template(missing[i])]

\* out: what the structured-output chain returned, ok = FALSE when it raised
generate_core_queries(out) ==
    IF ~out.ok THEN fallback_core_queries
    ELSE Unique(Take(out.route, 2) \o Take(out.food, 2) \o Take(out.accommodation, 2)
                \o Take(out.attraction, 2) \o Take(out.preference, 2), {})

DefaultMissing == <<"avoid", "tips">>

generate_supplement_queries(out, searched, missing) ==
    LET m == IF missing = <<>> THEN DefaultMissing ELSE missing
    IN  IF ~out.ok THEN fallback_supplement_queries(m)
        ELSE Take(SelectUnseen(out.queries, Range(searched)), 4)

CoreFailed == [ok |-> FALSE, route |-> <<>>, food |-> <<>>, accommodation |-> <<>>,
               attraction |-> <<>>, preference |-> <<>>]

CoreOutputs ==
    {CoreFailed,
     [ok |-> TRUE, route |-> <<Q("Nanjing 3 day route")>>, food |-> <<Q("Nanjing food")>>,
      accommodation |-> <<Q("Nanjing where to stay")>>,
      attraction |-> <<Q("Nanjing sights")>>, preference |-> <<>>],
     [ok |-> TRUE,
      route |-> <<Q("Nanjing 3 day route"), Q("Nanjing itinerary"), Q("Nanjing plan")>>,
      food |-> <<Q("Nanjing itinerary")>>, accommodation |-> <<Q("")>>,
      attraction |-> <<>>, preference |-> <<Q("Nanjing pitfalls")>>]}

SupplementOutputs ==
    {[ok |-> FALSE, queries |-> <<>>],
     [ok |-> TRUE, queries |-> <<Q("Nanjing pitfalls"), Q("Nanjing travel notes")>>],
     [ok |-> TRUE, queries |-> <<Q("Nanjing night food"), Q("Nanjing night food")>>],
     [ok |-> TRUE, queries |-> <<Padded("Nanjing food"), Q("Nanjing 3 day route")>>],
     [ok |-> TRUE, queries |-> <<Q("Nanjing food")>>]}

-----------------------------------------------------------------------------
(* TravelPlanTool._run: what happens before and after graph.invoke *)

\* the methods class RedisService defines
RedisServiceMethods ==
    {"_test_connection", "is_connected", "get_stats", "health_check",
     "_measure_latency"}

\* redis_service.update_plan_status(...): an AttributeError when the object
\* has no such method
update_plan_status_raises == "update_plan_status" \notin RedisServiceMethods

\* the parameters of create_initial_state (agents/state.py)
InitialStateParameters == {"user_profile", "session_id", "max_searches", "token_budget"}

\* the keywords travel_plan_tool.py passes to create_initial_state
InitialStateKeywords ==
    {"user_profile", "session_id", "max_searches", "skip_map", "skip_weather",
     "token_budget"}

\* a keyword that is no parameter is a TypeError
create_initial_state_raises == ~(InitialStateKeywords \subseteq InitialStateParameters)

Tools == {"tools.py", "travel_plan_tool.py"}
Entries == Tools \cup {"graph.invoke"}

\* the statements of _run before its try block: the status update when a
\* session id is known, and (travel_plan_tool.py) create_initial_state
run_preamble_raises(tool, sid) ==
    \/ sid # "" /\ update_plan_status_raises
    \/ tool = "travel_plan_tool.py" /\ create_initial_state_raises

\* the except block of _run / _handle_error: the status update, then the
\* error response
handle_error(sid) ==
    IF sid # "" /\ update_plan_status_raises THEN "exception" ELSE "error"

\* _process_result: the three response shapes
process_result(result, draft_plan, planning_rules) ==
    IF result # "None" THEN "success"
    ELSE IF draft_plan \/ planning_rules THEN "partial"
    ELSE "error"

-----------------------------------------------------------------------------
(* plan_node's result: the plan of the LLM when it has days, the plan built *)
(* from the accumulator when it has none, the skeleton when the call raised *)

MaxDays == 3

\* one entry of a route's daily_plan
RouteDay(d, ps) == [day |-> d, places |-> ps]

\* one entry of final_result.days; schedule holds the poi names
DayPlan(d, schedule) == [day |-> d, schedule |-> schedule]

Min(S) == CHOOSE i \in S : \A j \in S : i <= j

\* s[a:b] of Python (0-based, b exclusive, clipped to the list)
Slice(s, a, b) == SubSeq(s, a + 1, IF b < Len(s) THEN b ELSE Len(s))

\* the first route whose days equal user.days, else the first route
best_route(routes, days) ==
    LET same == {i \in DOMAIN routes : routes[i].days = days}
    IN  IF same # {} THEN routes[Min(same)] ELSE routes[1]

\* _create_fallback_plan(user, extracted)["days"]
create_fallback_plan(days, info) ==
    IF info.routes # <<>>
    THEN LET daily_plan == Take(best_route(info.routes, days).daily_plan, days)
         IN  [i \in 1..Len(daily_plan) |->
                 DayPlan(daily_plan[i].day, Take(daily_plan[i].places, 5))]
    ELSE IF info.places # <<>>
    THEN LET per == IF Len(info.places) \div days < 1 THEN 1
                    ELSE Len(info.places) \div days
         IN  [d \in 1..days |->
                 DayPlan(d, LET day_places == Slice(info.places, (d - 1) * per, d * per)
                            IN  [j \in 1..Len(day_places) |-> day_places[j].name])]
    ELSE <<>>

\* _create_fallback_result(user).days
create_fallback_result(days) == [d \in 1..days |-> DayPlan(d, <<>>)]

NoResult == [source |-> "None", days |-> <<>>]

\* the try / except of plan_node: out.kind = "raise" when llm.invoke or the
\* construction of the result raised; otherwise out.days is plan.get("days")
\* of the parsed plan ({} when nothing could be parsed)
plan_node_result(out, days, info) ==
    IF out.kind = "raise"
    THEN [source |-> "fallback_result", days |-> create_fallback_result(days)]
    ELSE IF out.days = <<>>
    THEN [source |-> "fallback_plan", days |-> create_fallback_plan(days, info)]
    ELSE [source |-> "llm_plan", days |-> out.days]

PlanOutputs ==
    {[kind |-> "raise", days |-> <<>>],
     [kind |-> "plan", days |-> <<>>],
     [kind |-> "plan", days |-> <<DayPlan(1, <<"Old Tower", "Lake">>)>>],
     [kind |-> "plan", days |-> <<DayPlan(1, <<"Old Tower">>), DayPlan(2, <<>>),
                                  DayPlan(3, <<"Wall">>)>>]}

PlanRoutes ==
    {<<>>,
     <<Route("note1", 3, <<>>)>>,
     <<Route("note1", 2, <<RouteDay(1, <<"Old Tower">>), RouteDay(2, <<"Lake">>)>>)>>,
     <<Route("note1", 1, <<RouteDay(1, <<"Wall">>)>>),
       Route("note2", 3, <<RouteDay(1, <<"Old Tower", "Lake">>), RouteDay(2, <<>>),
                           RouteDay(3, <<"Museum">>), RouteDay(4, <<"Wall">>)>>)>>}

PlanPayloads ==
    {Payload(r, SomePlaces(n), NoTransportation, NoAccommodation, f, <<>>, <<>>) :
        r \in PlanRoutes, n \in {0, 1, 4},
        f \in {NoFood, Food(<<>>, <<Dict("Old House"), Dict("New House")>>, <<>>)}}

PlanInit ==
    /\ user_days \in 1..MaxDays
    /\ plan_extracted \in {EmptyInfo}
            \cup {merge_extracted_info(EmptyInfo, new) : new \in PlanPayloads}
    /\ plan_output \in PlanOutputs
    /\ plan_result = NoResult

PlanCompose ==
    /\ plan_result = NoResult
    /\ plan_result' = plan_node_result(plan_output, user_days, plan_extracted)
    /\ UNCHANGED <<user_days, plan_extracted, plan_output>>

PlanIdle ==
    /\ user_days = 1 /\ plan_extracted = EmptyInfo
    /\ plan_output = [kind |-> "raise", days |-> <<>>] /\ plan_result = NoResult


PlanNext ==
    PlanCompose /\ UNCHANGED <<mergeVars, gateVars, runVars, parseVars, budgetVars,
                               filterVars, loopVars, genVars,
        likesVars,
        scoreVars,
        schedVars,
        noteVars,
        compVars,
        storeVars,
        chatVars>>

-----------------------------------------------------------------------------
(* _safe_parse_json and its helpers.  A text is a sequence of characters;   *)
(* the fence ```, the tag json and the literal null are one element each.   *)
(* The texts here hold no backslash and no block comment.                   *)

\* stands for the three backquotes that open or close a code block
Fence == "fence"
Ws == {" ", "\n"}
Digits == {"1", "2"}

\* the first index >= i of an element of S in t, 0 when there is none
IndexFrom(t, S, i) ==
    LET I == {j \in i..Len(t) : t[j] \in S}
    IN  IF I = {} THEN 0 ELSE Min(I)

\* the last index of an element of S in t, 0 when there is none (str.rfind)
LastIndex(t, S) ==
    LET I == {j \in DOMAIN t : t[j] \in S}
    IN  IF I = {} THEN 0 ELSE CHOOSE j \in I : \A k \in I : k <= j

RECURSIVE LStrip(_)
LStrip(t) == IF t # <<>> /\ Head(t) \in Ws THEN LStrip(Tail(t)) ELSE t

RECURSIVE RStrip(_)
RStrip(t) ==
    IF t # <<>> /\ t[Len(t)] \in Ws THEN RStrip(SubSeq(t, 1, Len(t) - 1)) ELSE t

\* str.strip()
Strip(t) == LStrip(RStrip(t))

\* ---- JSON values ----
JNull == [type |-> "null", chars |-> <<>>, items |-> <<>>, members |-> <<>>]
JStr(cs) == [type |-> "str", chars |-> cs, items |-> <<>>, members |-> <<>>]
JNum(cs) == [type |-> "num", chars |-> cs, items |-> <<>>, members |-> <<>>]
JArr(vs) == [type |-> "list", chars |-> <<>>, items |-> vs, members |-> <<>>]
JObj(ms) == [type |-> "dict", chars |-> <<>>, items |-> <<>>, members |-> ms]

\* d[key] = value on a dict kept as a list of members
SetMember(ms, key, value) ==
    IF \E i \in DOMAIN ms : ms[i].key = key
    THEN [i \in DOMAIN ms |-> IF ms[i].key = key THEN [key |-> key, value |-> value]
                              ELSE ms[i]]
    ELSE Append(ms, [key |-> key, value |-> value])

\* ---- json.loads ----
Failed == [ok |-> FALSE, val |-> JNull, pos |-> 0]
Parsed(v, p) == [ok |-> TRUE, val |-> v, pos |-> p]

\* the index of the first non-blank element at or after i (Len(t) + 1 at the end)
SkipWs(t, i) ==
    LET I == {j \in i..Len(t) : t[j] \notin Ws}
    IN  IF I = {} THEN Len(t) + 1 ELSE Min(I)

\* a string: from the quote at i to the next quote, no control character inside
ParseString(t, i) ==
    LET close == IndexFrom(t, {"\""}, i + 1)
    IN  IF close = 0 \/ \E j \in (i + 1)..(close - 1) : t[j] = "\n" THEN Failed
        ELSE Parsed(JStr(SubSeq(t, i + 1, close - 1)), close + 1)

ParseNumber(t, i) ==
    LET stop == {j \in i..Len(t) : t[j] \notin Digits}
        next == IF stop = {} THEN Len(t) + 1 ELSE Min(stop)
    IN  Parsed(JNum(SubSeq(t, i, next - 1)), next)

RECURSIVE ParseValue(_, _)
RECURSIVE ParseElements(_, _, _)
RECURSIVE ParseMembers(_, _, _)

\* the elements of an array after "[" or after ","; i is the index to read at
ParseElements(t, i, acc) ==
    LET at == SkipWs(t, i)
    IN  IF at > Len(t) THEN Failed
        ELSE IF t[at] = "]" /\ acc = <<>> /\ t[i - 1] = "[" THEN Parsed(JArr(<<>>), at + 1)
        ELSE LET v == ParseValue(t, at)
                 after == SkipWs(t, v.pos)
             IN  IF ~v.ok \/ after > Len(t) THEN Failed
                 ELSE IF t[after] = "," THEN ParseElements(t, after + 1, Append(acc, v.val))
                 ELSE IF t[after] = "]" THEN Parsed(JArr(Append(acc, v.val)), after + 1)
                 ELSE Failed

\* the members of an object after "{" or after ","
ParseMembers(t, i, acc) ==
    LET at == SkipWs(t, i)
    IN  IF at > Len(t) THEN Failed
        ELSE IF t[at] = "}" /\ acc = <<>> /\ t[i - 1] = "{" THEN Parsed(JObj(<<>>), at + 1)
        ELSE IF t[at] # "\"" THEN Failed
        ELSE LET k == ParseString(t, at)
                 colon == IF k.ok THEN SkipWs(t, k.pos) ELSE 0
             IN  IF ~k.ok \/ colon > Len(t) THEN Failed
                 ELSE IF t[colon] # ":" THEN Failed
                 ELSE LET v == ParseValue(t, colon + 1)
                          after == SkipWs(t, v.pos)
                      IN  IF ~v.ok \/ after > Len(t) THEN Failed
                          ELSE IF t[after] = ","
                          THEN ParseMembers(t, after + 1,
                                            SetMember(acc, k.val.chars, v.val))
                          ELSE IF t[after] = "}"
                          THEN Parsed(JObj(SetMember(acc, k.val.chars, v.val)), after + 1)
                          ELSE Failed

ParseValue(t, i) ==
    LET at == SkipWs(t, i)
    IN  IF at > Len(t) THEN Failed
        ELSE IF t[at] = "\"" THEN ParseString(t, at)
        ELSE IF t[at] \in Digits THEN ParseNumber(t, at)
        ELSE IF t[at] = "null" THEN Parsed(JNull, at + 1)
        ELSE IF t[at] = "[" THEN ParseElements(t, at + 1, <<>>)
        ELSE IF t[at] = "{" THEN ParseMembers(t, at + 1, <<>>)
        ELSE Failed

\* json.loads(t): one value, blanks around it, nothing else; ok = FALSE is
\* json.JSONDecodeError
json_loads(t) ==
    LET v == ParseValue(t, 1)
    IN  IF v.ok /\ SkipWs(t, v.pos) > Len(t) THEN v ELSE Failed

\* ---- _extract_json ----
extract_json(content) ==
    IF content = <<>> THEN <<"{", "}">>
    ELSE LET c == Strip(content)
             open == IndexFrom(c, {Fence}, 1)
             body == IF open # 0 /\ open < Len(c) /\ c[open + 1] = "json"
                     THEN open + 2 ELSE open + 1
             close == IF open = 0 THEN 0 ELSE IndexFrom(c, {Fence}, body)
             start == IndexFrom(c, {"{"}, 1)
             end == LastIndex(c, {"}"})
         IN  IF close # 0 THEN Strip(SubSeq(c, body, close - 1))
             ELSE IF start # 0 /\ end # 0 /\ end > start THEN SubSeq(c, start, end)
             ELSE c

\* ---- _fix_json_string ----
\* re.sub(r'//.*?(?=\n|$)', '', s): from every // up to the end of its line
RECURSIVE RemoveLineComments(_)
RemoveLineComments(t) ==
    IF t = <<>> THEN <<>>
    ELSE IF Len(t) >= 2 /\ t[1] = "/" /\ t[2] = "/"
    THEN LET n == IndexFrom(t, {"\n"}, 1)
         IN  IF n = 0 THEN <<>> ELSE RemoveLineComments(SubSeq(t, n, Len(t)))
    ELSE <<Head(t)>> \o RemoveLineComments(Tail(t))

\* re.sub(r',(\s*[}\]])', r'\1', s): a comma followed, after blanks, by } or ]
RECURSIVE RemoveTrailingCommas(_)
RemoveTrailingCommas(t) ==
    IF t = <<>> THEN <<>>
    ELSE IF Head(t) = "," /\ LStrip(Tail(t)) # <<>>
            /\ Head(LStrip(Tail(t))) \in {"}", "]"}
    THEN RemoveTrailingCommas(Tail(t))
    ELSE <<Head(t)>> \o RemoveTrailingCommas(Tail(t))

\* re.sub(r'[\x00-\x1f\x7f-\x9f]', '', s): the newline is a control character
RemoveControl(t) == SelectSeq(t, LAMBDA c : c # "\n")

fix_json_string(json_str) ==
    IF json_str = <<>> THEN <<"{", "}">>
    ELSE RemoveControl(RemoveTrailingCommas(RemoveLineComments(json_str)))

\* json_str.replace("'", '"')
ReplaceQuotes(t) == [i \in DOMAIN t |-> IF t[i] = "'" THEN "\"" ELSE t[i]]

\* ---- _fix_json_line_by_line ----
RECURSIVE Split(_)
\* json_str.split('\n')
Split(t) ==
    LET n == IndexFrom(t, {"\n"}, 1)
    IN  IF n = 0 THEN <<t>>
        ELSE <<SubSeq(t, 1, n - 1)>> \o Split(SubSeq(t, n + 1, Len(t)))

RECURSIVE Join(_)
\* '\n'.join(lines)
Join(lines) ==
    IF Len(lines) = 1 THEN lines[1]
    ELSE lines[1] \o <<"\n">> \o Join(Tail(lines))

\* re.sub(r',\s*$', '', line.rstrip())
DropEndComma(line) ==
    LET l == RStrip(line)
    IN  IF l # <<>> /\ l[Len(l)] = "," THEN SubSeq(l, 1, Len(l) - 1) ELSE l

RECURSIVE RStripCommas(_)
\* line.rstrip().rstrip(',')
RStripCommas(l) ==
    IF l # <<>> /\ l[Len(l)] = "," THEN RStripCommas(SubSeq(l, 1, Len(l) - 1)) ELSE l

fix_json_line_by_line(json_str) ==
    LET lines == Split(json_str)
        fixed(i) ==
            LET line == DropEndComma(lines[i])
                next == IF i < Len(lines) THEN Strip(lines[i + 1]) ELSE <<>>
            IN  IF next # <<>> /\ next[1] \in {"]", "}"}
                THEN RStripCommas(RStrip(line)) ELSE line
    IN  Join([i \in DOMAIN lines |-> fixed(i)])

\* ---- _safe_parse_json ----
\* attempt: which of the four attempts parsed, 0 when the default is returned
safe_parse_json(content, default) ==
    IF content = <<>> THEN [attempt |-> 0, value |-> default]
    ELSE LET json_str == extract_json(content)
             a1 == json_loads(json_str)
             a2 == json_loads(fix_json_string(json_str))
             a3 == json_loads(ReplaceQuotes(json_str))
             a4 == json_loads(fix_json_line_by_line(json_str))
         IN  IF a1.ok THEN [attempt |-> 1, value |-> a1.val]
             ELSE IF a2.ok THEN [attempt |-> 2, value |-> a2.val]
             ELSE IF a3.ok THEN [attempt |-> 3, value |-> a3.val]
             ELSE IF a4.ok THEN [attempt |-> 4, value |-> a4.val]
             ELSE [attempt |-> 0, value |-> default]

\* ---- the texts _safe_parse_json is driven with ----
MaxMembers == 2

Keys == <<"a", "b", "c", "d">>
ValueKinds == {"num", "str", "url", "commastr", "list"}

\* a JSON object as an LLM writes it: its members' values, the quote
\* character of its strings, a trailing comma before every closing bracket
\* or not, one member per line or not, and what surrounds it
Docs ==
    [kind : {"object"}, quote : {"\"", "'"}, trailing : BOOLEAN, lines : BOOLEAN,
     wrapper : {"bare", "fenced_json", "fenced", "prose"},
     values : UNION {[1..n -> ValueKinds] : n \in 0..MaxMembers}]

\* texts that hold no JSON object
Other(kind) ==
    [kind |-> kind, quote |-> "\"", trailing |-> FALSE, lines |-> FALSE,
     wrapper |-> "bare", values |-> <<>>]

OtherKinds ==
    {"empty", "blank", "prose", "prose_braces", "list", "number", "null",
     "string", "fenced_list"}

StringText(doc, cs) == <<doc.quote>> \o cs \o <<doc.quote>>

ValueText(doc, kind) ==
    CASE kind = "num" -> <<"1">>
      [] kind = "str" -> StringText(doc, <<"a", "b">>)
      [] kind = "url" -> StringText(doc, <<"a", ":", "/", "/", "b">>)
      [] kind = "commastr" -> StringText(doc, <<"a", ",", "}">>)
      [] kind = "list" -> <<"[", "1", ",", " ", "2">>
                          \o (IF doc.trailing THEN <<",">> ELSE <<>>) \o <<"]">>

RECURSIVE MembersText(_, _)
\* members i.. of the object, separated by commas
MembersText(doc, i) ==
    IF i > Len(doc.values) THEN <<>>
    ELSE StringText(doc, <<Keys[i]>>) \o <<":", " ">> \o ValueText(doc, doc.values[i])
         \o (IF i < Len(doc.values)
             THEN <<",">> \o (IF doc.lines THEN <<"\n">> ELSE <<" ">>)
             ELSE IF doc.trailing THEN <<",">> ELSE <<>>)
         \o MembersText(doc, i + 1)

ObjectText(doc) ==
    LET nl == IF doc.lines THEN <<"\n">> ELSE <<>>
    IN  <<"{">> \o nl \o MembersText(doc, 1) \o nl \o <<"}">>

\* the text of a document
Text(doc) ==
    CASE doc.kind = "empty" -> <<>>
      [] doc.kind = "blank" -> <<" ", "\n">>
      [] doc.kind = "prose" -> <<"a", " ", "b">>
      [] doc.kind = "prose_braces" -> <<"a", " ", "{", "b", "}">>
      [] doc.kind = "list" -> <<"[", "1", ",", " ", "2", "]">>
      [] doc.kind = "number" -> <<"1", "2">>
      [] doc.kind = "null" -> <<"null">>
      [] doc.kind = "string" -> <<"\"", "a", "\"">>
      [] doc.kind = "fenced_list" -> <<Fence, "json", "\n", "[", "1", "]", "\n", Fence>>
      [] doc.kind = "object" ->
            CASE doc.wrapper = "bare" -> ObjectText(doc)
              [] doc.wrapper = "fenced_json" ->
                    <<"a", "\n", Fence, "json", "\n">> \o ObjectText(doc) \o <<"\n", Fence>>
              [] doc.wrapper = "fenced" ->
                    <<Fence, "\n">> \o ObjectText(doc) \o <<"\n", Fence, "\n", "b">>
              [] doc.wrapper = "prose" -> <<"a", " ">> \o ObjectText(doc) \o <<" ", "b">>

\* default={} of the callers
DefaultMapping == JObj(<<>>)

NotParsed == [attempt |-> -1, value |-> JNull]

ParseInit ==
    /\ parse_doc \in Docs \cup {Other(k) : k \in OtherKinds}
    /\ parse_content = Text(parse_doc)
    /\ parse_out = NotParsed

ParseCall ==
    /\ parse_out = NotParsed
    /\ parse_out' = safe_parse_json(parse_content, DefaultMapping)
    /\ UNCHANGED <<parse_doc, parse_content>>

ParseIdle ==
    /\ parse_doc = Other("empty") /\ parse_content = <<>> /\ parse_out = NotParsed

ParseNext ==
    ParseCall /\ UNCHANGED <<mergeVars, gateVars, runVars, planVars, budgetVars,
                             filterVars, loopVars, genVars,
        likesVars,
        scoreVars,
        schedVars,
        noteVars,
        compVars,
        storeVars,
        chatVars>>

-----------------------------------------------------------------------------
(***************************************************************************)
(* TokenBudget (utils/token_budget.py).  `consumed` is a Python dict: a    *)
(* function whose domain is the set of stages consumed so far.             *)
(***************************************************************************)
MaxConsumes == 3
MaxTokens == 2

\* "extract" and "plan" have an allowance; any other name is accepted too
Stages == {"extract", "plan", "search"}
TokenAmounts == 0 .. MaxTokens

\* consumed.get(stage, 0)
consumed_get(consumed, stage) ==
    IF stage \in DOMAIN consumed THEN consumed[stage] ELSE 0

RECURSIVE SumValues(_, _)
\* sum(consumed.values()), over the keys in S
SumValues(consumed, S) ==
    IF S = {} THEN 0
    ELSE LET k == CHOOSE x \in S : TRUE
         IN  consumed[k] + SumValues(consumed, S \ {k})

\* TokenBudget(extract, plan, total_budget) with consumed = {}
TokenBudget(extract, plan, total) ==
    [extract |-> extract, plan |-> plan, total_budget |-> total,
     consumed |-> <<>>]

\* a budget that enforces its ceiling: a call made over budget is dropped
consume_capped(b, stage, tokens) ==
    IF SumValues(b.consumed, DOMAIN b.consumed) > b.total_budget THEN b
    ELSE [b EXCEPT !.consumed =
            [s \in DOMAIN b.consumed \cup {stage} |->
                IF s = stage THEN consumed_get(b.consumed, stage) + tokens
                ELSE b.consumed[s]]]

consume(b, stage, tokens) ==
    [b EXCEPT !.consumed =
        [s \in DOMAIN b.consumed \cup {stage} |->
            IF s = stage THEN consumed_get(b.consumed, stage) + tokens
            ELSE b.consumed[s]]]

get_stage_budget(b, stage) ==
    CASE stage = "extract" -> b.extract
      [] stage = "plan" -> b.plan
      [] OTHER -> 0

Max0(n) == IF n > 0 THEN n ELSE 0

get_remaining(b, stage) ==
    Max0(get_stage_budget(b, stage) - consumed_get(b.consumed, stage))

get_total_consumed(b) == SumValues(b.consumed, DOMAIN b.consumed)

get_total_remaining(b) == Max0(b.total_budget - get_total_consumed(b))

is_over_budget(b) == get_total_consumed(b) > b.total_budget

\* budgets small enough for the amounts above to exceed them
Budgets ==
    {TokenBudget(e, p, t) : e \in {1}, p \in {MaxTokens},
                            t \in {0, MaxTokens, 2 * MaxTokens}}

BudgetInit ==
    /\ budget \in Budgets
    /\ budget_log = <<>>

BudgetConsume ==
    /\ Len(budget_log) < MaxConsumes
    /\ \E stage \in Stages, tokens \in TokenAmounts :
          /\ budget' = consume(budget, stage, tokens)
          /\ budget_log' = Append(budget_log, <<stage, tokens>>)

BudgetIdle ==
    /\ budget = TokenBudget(1, MaxTokens, 0)
    /\ budget_log = <<>>

BudgetNext ==
    BudgetConsume /\ UNCHANGED <<mergeVars, gateVars, runVars, planVars, parseVars,
                                 filterVars, loopVars, genVars,
        likesVars,
        scoreVars,
        schedVars,
        noteVars,
        compVars,
        storeVars,
        chatVars>>

-----------------------------------------------------------------------------
(***************************************************************************)
(* InformationValueEvaluator.filter_and_compress (utils/value_evaluator.py)*)
(* A note carries the final_score and the categories _evaluate_single_note *)
(* computes for it; scores are in thousandths, so 0.15 is 150.             *)
(***************************************************************************)
MaxNotes == 3

MinScore == 150

NoteCategories == {"route", "food", "unknown"}

\* a raw note, with what the evaluator finds in it
RawNote(title, final_score, categories) ==
    [title |-> title, final_score |-> final_score, categories |-> categories]

\* NoteScore(note_index, final_score, categories); note_index counts from 1
NoteScore(idx, note) ==
    [note_index |-> idx, final_score |-> note.final_score,
     categories |-> note.categories]

RECURSIVE InsertDesc(_, _)
\* x placed after every entry whose final_score is not lower (stable)
InsertDesc(sorted, x) ==
    IF sorted = <<>> THEN <<x>>
    ELSE IF Head(sorted).final_score >= x.final_score
         THEN <<Head(sorted)>> \o InsertDesc(Tail(sorted), x)
         ELSE <<x>> \o sorted

RECURSIVE SortDesc(_, _)
\* scores.sort(key=final_score, reverse=True): stable, highest first
SortDesc(sorted, rest) ==
    IF rest = <<>> THEN sorted
    ELSE SortDesc(InsertDesc(sorted, Head(rest)), Tail(rest))

evaluate_notes(notes) ==
    SortDesc(<<>>, [i \in 1 .. Len(notes) |-> NoteScore(i, notes[i])])

\* the entry appended to `selected` for a score
Selected(notes, score) ==
    [title |-> notes[score.note_index].title, score |-> score.final_score,
     categories |-> score.categories]

RECURSIVE select_main(_, _, _, _)
\* the first loop: skip a score below the threshold, stop at max_notes
select_main(notes, scores, max_notes, selected) ==
    IF scores = <<>> THEN selected
    ELSE IF Head(scores).final_score < MinScore
         THEN select_main(notes, Tail(scores), max_notes, selected)
    ELSE IF Len(selected) >= max_notes THEN selected
    ELSE select_main(notes, Tail(scores), max_notes,
                     Append(selected, Selected(notes, Head(scores))))

RECURSIVE select_required(_, _, _, _)
\* the second loop: a remaining score is taken when it has a missing category
select_required(notes, scores, missing, selected) ==
    IF scores = <<>> \/ missing = {} THEN selected
    ELSE IF Head(scores).categories \cap missing # {}
         THEN select_required(notes, Tail(scores),
                              missing \ Head(scores).categories,
                              Append(selected, Selected(notes, Head(scores))))
         ELSE select_required(notes, Tail(scores), missing, selected)

filter_and_compress(notes, max_notes, required_categories) ==
    IF notes = <<>> THEN <<>>
    ELSE LET scores   == evaluate_notes(notes)
             selected == select_main(notes, scores, max_notes, <<>>)
             covered  == UNION {selected[i].categories : i \in DOMAIN selected}
             missing  == Range(required_categories) \ covered
         IN  IF required_categories # <<>> /\ missing # {}
             THEN select_required(notes,
                                  SubSeq(scores, Len(selected) + 1, Len(scores)),
                                  missing, selected)
             ELSE selected

\* scores around the threshold, one category each or none recognised
NoteKinds ==
    {[final_score |-> f, categories |-> {c}] :
        f \in {MinScore - 1, MinScore, MinScore + 1}, c \in NoteCategories}

\* the lists of up to MaxNotes notes; a note's title is its position
NoteLists ==
    UNION {{[i \in 1 .. n |-> RawNote(i, k[i].final_score, k[i].categories)] :
                k \in [1 .. n -> NoteKinds]} : n \in 0 .. MaxNotes}

NotFiltered == [called |-> FALSE, notes |-> <<>>]

FilterInit ==
    /\ filter_notes \in NoteLists
    /\ filter_max \in 1 .. MaxNotes - 1
    /\ filter_required \in {<<>>, <<"route">>, <<"food", "route">>}
    /\ filter_out = NotFiltered

FilterCall ==
    /\ filter_out = NotFiltered
    /\ filter_out' =
          [called |-> TRUE,
           notes |-> filter_and_compress(filter_notes, filter_max, filter_required)]
    /\ UNCHANGED <<filter_notes, filter_max, filter_required>>

FilterIdle ==
    /\ filter_notes = <<>> /\ filter_max = 1 /\ filter_required = <<>>
    /\ filter_out = NotFiltered

FilterNext ==
    FilterCall /\ UNCHANGED <<mergeVars, gateVars, runVars, planVars, parseVars,
                              budgetVars, loopVars, genVars,
        likesVars,
        scoreVars,
        schedVars,
        noteVars,
        compVars,
        storeVars,
        chatVars>>

-----------------------------------------------------------------------------
(***************************************************************************)
(* The query loop of search_node (travel_workflow.py 372-409): per query,  *)
(* the cache, then the provider inside try/except, then the filter.        *)
(***************************************************************************)
MaxQueries == 3

\* What the cache and the provider give for one query:
\*   cached:     travel_cache.get_search_results returns a non-empty list
\*   notes:      the provider returns {"notes": [...]}
\*   error:      the provider returns {"error": ...}
\*   raise:      search_tool._run raises
\*   not_json:   json.loads(res) raises
\*   notes_null: the provider returns {"notes": null}; extend(None) raises
ReplyKinds == {"cached", "notes", "error", "raise", "not_json", "notes_null"}

\* the kinds the claim calls a failure on one query
FailureKinds == {"error", "raise", "not_json", "notes_null"}

\* the notes query i carries: from the cache one note, from the provider two,
\* the second below the filter's threshold
ReplyNotes(i, kind) ==
    CASE kind = "cached" -> <<RawNote(<<i, 1>>, MinScore + i, {"route"})>>
      [] kind = "notes" -> <<RawNote(<<i, 1>>, MinScore + i, {"food"}),
                             RawNote(<<i, 2>>, MinScore - 1, {"unknown"})>>
      [] OTHER -> <<>>

Reply(i, kind) == [kind |-> kind, notes |-> ReplyNotes(i, kind)]

\* all_notes, the provider calls and the cache writes before the loop
NoSearches == [all_notes |-> <<>>, calls |-> <<>>, cache_writes |-> <<>>]

\* one iteration of `for keyword in queries` for query i
search_one(i, reply, acc) ==
    IF reply.kind = "cached"
    THEN [acc EXCEPT !.all_notes = @ \o reply.notes]
    ELSE IF reply.kind = "notes"
    THEN [acc EXCEPT !.all_notes = @ \o reply.notes,
                     !.calls = Append(@, i),
                     !.cache_writes = Append(@, i)]
    ELSE \* the error branch, or an exception caught by `except Exception`
         [acc EXCEPT !.calls = Append(@, i)]

RECURSIVE search_loop_first_failure(_, _, _)
\* a loop that gives up at the first failed query
search_loop_first_failure(replies, i, acc) ==
    IF i > Len(replies) \/ replies[i].kind \in FailureKinds THEN acc
    ELSE search_loop_first_failure(replies, i + 1, search_one(i, replies[i], acc))

RECURSIVE search_loop(_, _, _)
search_loop(replies, i, acc) ==
    IF i > Len(replies) THEN acc
    ELSE search_loop(replies, i + 1, search_one(i, replies[i], acc))

\* the loop, then filter_and_compress when there is a note, then the return
\* of the node, after which the graph runs extract
search_queries(replies) ==
    LET acc == search_loop(replies, 1, NoSearches)
    IN  [called |-> TRUE,
         calls |-> acc.calls,
         cache_writes |-> acc.cache_writes,
         handed |-> acc.all_notes,
         filter_called |-> acc.all_notes # <<>>,
         filtered |-> IF acc.all_notes # <<>>
                      THEN filter_and_compress(acc.all_notes, MaxNotes, <<>>)
                      ELSE <<>>,
         next |-> "extract"]

NotSearched ==
    [called |-> FALSE, calls |-> <<>>, cache_writes |-> <<>>, handed |-> <<>>,
     filter_called |-> FALSE, filtered |-> <<>>, next |-> "search"]

SearchInit ==
    /\ \E n \in 1 .. MaxQueries : \E kinds \in [1 .. n -> ReplyKinds] :
          search_replies = [i \in 1 .. n |-> Reply(i, kinds[i])]
    /\ search_out = NotSearched

SearchQueries ==
    /\ ~search_out.called
    /\ search_out' = search_queries(search_replies)
    /\ UNCHANGED search_replies

SearchIdle ==
    /\ search_replies = <<>>
    /\ search_out = NotSearched

SearchNext ==
    SearchQueries /\ UNCHANGED <<mergeVars, gateVars, runVars, planVars, parseVars,
                                 budgetVars, filterVars, genVars,
        likesVars,
        scoreVars,
        schedVars,
        noteVars,
        compVars,
        storeVars,
        chatVars>>

-----------------------------------------------------------------------------
(***************************************************************************)
(* The query generation of search_node (travel_workflow.py 325-353) when   *)
(* the LLM chain raises: the template fallbacks of LLMSearchQueryGenerator.*)
(***************************************************************************)
MaxMissing == 4
MaxRound == 3

\* the categories the template table knows, and one it does not
MissingCategories ==
    {"places", "food", "accommodation", "transportation", "route", "avoid",
     "tips", "weather"}

MissingLists == UNION {[1 .. n -> MissingCategories] : n \in 0 .. MaxMissing}

SupplementFailed == [ok |-> FALSE, queries |-> <<>>]

\* the queries search_node gets in round `count` when the chain raises
fallback_queries(count, missing) ==
    IF count = 1 THEN generate_core_queries(CoreFailed)
    ELSE generate_supplement_queries(SupplementFailed, <<>>,
                                     IF missing # <<>> THEN missing
                                     ELSE DefaultMissing)

NotGenerated == [called |-> FALSE, queries |-> <<>>]

GenInit ==
    /\ gen_round \in 1 .. MaxRound
    /\ gen_missing \in MissingLists
    /\ gen_round = 1 => gen_missing = <<>>
    /\ gen_out = NotGenerated

GenerateFallback ==
    /\ ~gen_out.called
    /\ gen_out' = [called |-> TRUE,
                   queries |-> fallback_queries(gen_round, gen_missing)]
    /\ UNCHANGED <<gen_round, gen_missing>>

GenIdle ==
    /\ gen_round = 1 /\ gen_missing = <<>> /\ gen_out = NotGenerated

GenNext ==
    GenerateFallback /\ UNCHANGED <<mergeVars, gateVars, runVars, planVars,
                                    parseVars, budgetVars, filterVars, loopVars,
        likesVars,
        scoreVars,
        schedVars,
        noteVars,
        compVars,
        storeVars,
        chatVars>>

-----------------------------------------------------------------------------
(***************************************************************************)
(* InformationValueEvaluator._safe_int (utils/value_evaluator.py 129-154). *)
(* A string is a sequence of tokens; a float is `num` / 10^`places`, or    *)
(* one of the special values nan, inf, -inf.                               *)
(***************************************************************************)
MaxLikesLen == 3

LikesTokens == {"1", "5", ".", ",", "k", "w", "inf", "nan", "e999", "-", " "}

RECURSIVE Pow10(_)
Pow10(n) == IF n = 0 THEN 1 ELSE 10 * Pow10(n - 1)

\* a Python float
Finite(num, places) == [special |-> "finite", num |-> num, places |-> places]
NaN == [special |-> "nan", num |-> 0, places |-> 0]
Inf == [special |-> "inf", num |-> 0, places |-> 0]
NegInf == [special |-> "-inf", num |-> 0, places |-> 0]

\* what a call gives: a value, or the exception that leaves it
Returned(n) == [raised |-> "", value |-> n]
Raised(e) == [raised |-> e, value |-> 0]

\* int(x) for a float x: truncation towards zero; nan and the infinities raise
int_of_float(x) ==
    CASE x.special = "nan" -> Raised("ValueError")
      [] x.special \in {"inf", "-inf"} -> Raised("OverflowError")
      [] OTHER -> Returned(IF x.num >= 0 THEN x.num \div Pow10(x.places)
                           ELSE -((-x.num) \div Pow10(x.places)))

RECURSIVE DigitsValue(_, _)
\* the number written by a sequence of digit tokens
DigitsValue(ds, acc) ==
    IF ds = <<>> THEN acc
    ELSE DigitsValue(Tail(ds), 10 * acc + (IF Head(ds) = "1" THEN 1 ELSE 5))

IsDigits(ds) == \A i \in DOMAIN ds : ds[i] \in {"1", "5"}

\* float(s) for the unsigned text s: [ok, x]
float_unsigned(s) ==
    LET e      == IndexFrom(s, {"e999"}, 1)
        \* an exponent: e999 and any further digits
        hasExp == e > 0 /\ IsDigits(SubSeq(s, e + 1, Len(s)))
        m      == IF hasExp THEN SubSeq(s, 1, e - 1) ELSE s
        dot    == IndexFrom(m, {"."}, 1)
        whole  == IF dot = 0 THEN m ELSE SubSeq(m, 1, dot - 1)
        frac   == IF dot = 0 THEN <<>> ELSE SubSeq(m, dot + 1, Len(m))
    IN  IF s = <<"inf">> THEN [ok |-> TRUE, x |-> Inf]
        ELSE IF s = <<"nan">> THEN [ok |-> TRUE, x |-> NaN]
        ELSE IF IsDigits(whole) /\ IsDigits(frac) /\ whole \o frac # <<>>
             THEN [ok |-> TRUE,
                   x |-> IF hasExp THEN Inf
                         ELSE Finite(DigitsValue(whole \o frac, 0), Len(frac))]
        ELSE [ok |-> FALSE, x |-> NaN]

Negate(x) ==
    CASE x.special = "inf" -> NegInf
      [] x.special = "-inf" -> Inf
      [] x.special = "nan" -> NaN
      [] OTHER -> Finite(-x.num, x.places)

\* float(s): blanks around the text are ignored, one sign is accepted
float_of_str(s) ==
    LET t == Strip(s)
    IN  IF t # <<>> /\ Head(t) = "-"
        THEN LET r == float_unsigned(Tail(t))
             IN  [ok |-> r.ok, x |-> Negate(r.x)]
        ELSE float_unsigned(t)

\* x * multiplier
Times(x, multiplier) ==
    IF x.special = "finite" THEN Finite(x.num * multiplier, x.places) ELSE x

\* the values handed to _safe_int
LikesNone == [type |-> "none", num |-> 0, x |-> NaN, chars |-> <<>>]
LikesInt(n) == [type |-> "int", num |-> n, x |-> NaN, chars |-> <<>>]
LikesFloat(x) == [type |-> "float", num |-> 0, x |-> x, chars |-> <<>>]
LikesStr(cs) == [type |-> "str", num |-> 0, x |-> NaN, chars |-> cs]
LikesList == [type |-> "list", num |-> 0, x |-> NaN, chars |-> <<>>]

\* the `try` of the string branch, with every exception it can meet
safe_int_str_try(v) ==
    LET last == v[Len(v)]
        multiplier == CASE last = "k" -> 1000 [] last = "w" -> 10000 [] OTHER -> 1
        cut  == IF last \in {"k", "w"} THEN SubSeq(v, 1, Len(v) - 1) ELSE v
        bare == SelectSeq(cut, LAMBDA c : c # ",")
        f    == float_of_str(bare)
    IN  IF ~f.ok THEN Raised("ValueError")
        ELSE int_of_float(Times(f.x, multiplier))

safe_int(value) ==
    CASE value.type = "none" -> Returned(0)
      [] value.type = "int" -> Returned(value.num)
      [] value.type = "float" -> int_of_float(value.x)
      [] value.type = "str" ->
            LET v == Strip(value.chars)
            IN  IF v = <<>> THEN Returned(0)
                ELSE LET r == safe_int_str_try(v)
                     IN  \* except (ValueError, TypeError): return 0
                         IF r.raised \in {"ValueError", "TypeError"}
                         THEN Returned(0) ELSE r
      [] OTHER -> Returned(0)

LikesValues ==
    {LikesNone, LikesList}
    \cup {LikesInt(n) : n \in {-3, 0, 5}}
    \cup {LikesFloat(x) : x \in {Finite(19, 1), Finite(-19, 1), NaN, Inf, NegInf}}
    \cup {LikesStr(cs) : cs \in UNION {[1 .. n -> LikesTokens] : n \in 0 .. MaxLikesLen}}

NoLikes == [called |-> FALSE, raised |-> "", value |-> 0]

LikesInit ==
    /\ likes_in \in LikesValues
    /\ likes_out = NoLikes

LikesCall ==
    /\ ~likes_out.called
    /\ likes_out' = [called |-> TRUE, raised |-> safe_int(likes_in).raised,
                    value |-> safe_int(likes_in).value]
    /\ UNCHANGED likes_in

LikesIdle ==
    /\ likes_in = LikesNone
    /\ likes_out = NoLikes

LikesFrame ==
    UNCHANGED <<mergeVars, gateVars, runVars, planVars, parseVars,
                budgetVars, filterVars, loopVars, genVars,
        scoreVars,
        schedVars,
        noteVars,
        compVars,
        storeVars,
        chatVars>>

LikesNext == LikesCall /\ LikesFrame

-----------------------------------------------------------------------------
(***************************************************************************)
(* InformationValueEvaluator._evaluate_single_note                         *)
(* (utils/value_evaluator.py 214-264) on the features of a note's text.    *)
(* The text is `filler` characters (plain ones, and what `dest`, `day`,    *)
(* `infos` and `markers` stand for) followed by the keywords it holds,     *)
(* each after one blank.  The keywords are eight of the entries of  *)
(* HIGH_VALUE_KEYWORDS, none a substring of another, named in pinyin:      *)
(*   luxian 路线, xingcheng 行程, bendiren 本地人, laozihao 老字号,        *)
(*   feiyong 费用, shunlu 顺路, jiage 价格, shangwu 上午.                  *)
(* Scores are exact fractions [num, den].                                  *)
(***************************************************************************)
MaxFillers == 3

HIGH_VALUE_KEYWORDS ==
    [kw \in {"luxian", "xingcheng", "bendiren", "laozihao",
             "feiyong", "shunlu", "jiage", "shangwu"} |->
        CASE kw \in {"luxian", "xingcheng"} -> 3
          [] kw = "shangwu" -> 1
          [] OTHER -> 2]

\* len(kw) of the Chinese keyword
KeywordLen(kw) == IF kw \in {"bendiren", "laozihao"} THEN 3 ELSE 2

\* the categories the eight keywords belong to
CATEGORY_KEYWORDS ==
    [route |-> [high |-> {"luxian", "xingcheng"}, medium |-> {}, weight |-> 3],
     accommodation |-> [high |-> {}, medium |-> {"jiage"}, weight |-> 2]]

RECURSIVE SumOver(_, _)
SumOver(f, S) ==
    IF S = {} THEN 0
    ELSE LET x == CHOOSE y \in S : TRUE IN f[x] + SumOver(f, S \ {x})

\* len(text)
text_len(note) ==
    note.filler + SumOver([kw \in note.keywords |-> KeywordLen(kw) + 1], note.keywords)

detect_categories(note) ==
    LET detected == {c \in DOMAIN CATEGORY_KEYWORDS :
            LET high_count == Cardinality(CATEGORY_KEYWORDS[c].high \cap note.keywords)
                medium_count == Cardinality(CATEGORY_KEYWORDS[c].medium \cap note.keywords)
            IN  high_count >= 2 \/ (high_count >= 1 /\ medium_count >= 2)}
    IN  IF detected # {} THEN detected ELSE {"unknown"}

MinOf(a, b) == IF a < b THEN a ELSE b

\* relevance, in hundredths
calc_relevance(note, categories) ==
    LET keyword_score == SumOver(HIGH_VALUE_KEYWORDS, note.keywords)
    IN  MinOf(100,
              (IF note.dest THEN 30 ELSE 0)
              + (IF note.day THEN 15 ELSE 0)
              + MinOf(25, 4 * keyword_score)
              + SumOver([c \in categories \cap DOMAIN CATEGORY_KEYWORDS |->
                            3 * CATEGORY_KEYWORDS[c].weight],
                        categories \cap DOMAIN CATEGORY_KEYWORDS))

\* the kinds of key information the patterns find: those of the filler,
\* and the time the keyword shangwu is
key_info(note) ==
    note.infos \cup (IF "shangwu" \in note.keywords THEN {"time"} ELSE {})

\* density = min(1.0, len(key_info) / max(text_len / 150, 1)), as a fraction
calc_information_density(note) ==
    LET n == Cardinality(key_info(note))
        len == text_len(note)
    IN  IF len <= 150 \/ 150 * n >= len
        THEN [num |-> MinOf(1, n), den |-> 1]
        ELSE [num |-> 150 * n, den |-> len]

\* _seen_info of a new evaluator
seen_info == {}

\* uniqueness, in hundredths
calc_uniqueness(info) ==
    IF info = {} THEN 50
    ELSE (100 * Cardinality(info \ seen_info)) \div Cardinality(info)

\* penalty, in tenths
calc_penalty(note) ==
    MinOf(5, note.markers + (IF text_len(note) < 100 THEN 1 ELSE 0))

\* final_score, as a fraction of 1/4000 units
evaluate_single_note(note, target_categories) ==
    LET categories == detect_categories(note)
        relevance == calc_relevance(note, categories)
        density == calc_information_density(note)
        uniqueness == calc_uniqueness(key_info(note))
        social_bonus == IF note.likes > 0 THEN MinOf(1500, note.likes) ELSE 0
        category_bonus == Cardinality(categories \cap target_categories)
    IN  [num |-> (relevance * density.den
                  + 140 * density.num
                  + ((4 * uniqueness) \div 5) * density.den
                  + (social_bonus \div 25) * density.den
                  + 40 * category_bonus * density.den)
                 * (10 - calc_penalty(note)),
         den |-> density.den]

\* a < b for two scores
ScoreLess(a, b) == a.num * b.den < b.num * a.den

\* the note with the keywords of `more` added to its text
WithKeywords(note, more) == [note EXCEPT !.keywords = @ \cup more]

ScoreNotes ==
    [filler : {40 + 50 * k : k \in 0..MaxFillers},
     infos : {{}, {"time"}, {"time", "price"}},
     dest : BOOLEAN, day : BOOLEAN,
     markers : {0, 1}, likes : {0, 500},
     keywords : SUBSET DOMAIN HIGH_VALUE_KEYWORDS]

NoScore == [called |-> FALSE, base |-> [num |-> 0, den |-> 1],
            richer |-> [num |-> 0, den |-> 1]]

ScoreInit ==
    /\ score_note \in ScoreNotes
    /\ score_more \in {K \in SUBSET (DOMAIN HIGH_VALUE_KEYWORDS \ score_note.keywords) :
                          Cardinality(K) = 5}
    /\ score_targets \in {{}, {"route"}}
    /\ score_out = NoScore

\* the note and the richer note, each scored by a new evaluator
ScoreCall ==
    /\ ~score_out.called
    /\ score_out' = [called |-> TRUE,
                     base |-> evaluate_single_note(score_note, score_targets),
                     richer |-> evaluate_single_note(
                                   WithKeywords(score_note, score_more), score_targets)]
    /\ UNCHANGED <<score_note, score_more, score_targets>>

ScoreIdle ==
    /\ score_note = [filler |-> 40, infos |-> {}, dest |-> FALSE, day |-> FALSE,
                     markers |-> 0, likes |-> 0, keywords |-> {}]
    /\ score_more = {}
    /\ score_targets = {}
    /\ score_out = NoScore

ScoreFrame ==
    UNCHANGED <<mergeVars, gateVars, runVars, planVars, parseVars,
                budgetVars, filterVars, loopVars, genVars, likesVars,
        schedVars,
        noteVars,
        compVars,
        storeVars,
        chatVars>>

ScoreNext == ScoreCall /\ ScoreFrame

-----------------------------------------------------------------------------
(***************************************************************************)
(* One schedule item on its way into the final plan:                       *)
(*   normalize_schedule_item and _get_poi (agents/nodes.py 940-982),       *)
(*   plan_node's TravelPlanResult(days=plan["days"])                       *)
(*   (agents/travel_workflow.py 1370-1384, models/schemas.py 201-222),     *)
(*   _create_fallback_plan (agents/travel_workflow.py 1422-1449).          *)
(* A text is a sequence of words: goto 前往, visit 游览, arrow →,          *)
(* comma ，, a blank, and the place names A and B.  The keys time and       *)
(* route_info of an item, which no step reads, are left out.               *)
(***************************************************************************)
MaxWords == 2

Words == {"goto", "visit", "arrow", "comma", " ", "A", "B"}
Verbs == {"goto", "visit"}

Texts == UNION {[1..n -> Words] : n \in 0..MaxWords}

\* item.get(key): the key may be absent
Absent == [has |-> FALSE, text |-> <<>>]
Present(t) == [has |-> TRUE, text |-> t]
GetOr(field, default) == IF field.has THEN field.text ELSE default

\* t up to the first word of S
Before(t, S) ==
    LET n == IndexFrom(t, S, 1)
    IN  IF n = 0 THEN t ELSE SubSeq(t, 1, n - 1)

\* t.split(kw)[1], for a kw that occurs in t
SecondPart(t, kw) ==
    LET n == IndexFrom(t, {kw}, 1)
    IN  Before(SubSeq(t, n + 1, Len(t)), {kw})

get_poi(item) ==
    LET poi == GetOr(item.poi, <<>>)
        activity == GetOr(item.activity, <<>>)
        keywords == <<"visit", "goto">>
        found == {i \in DOMAIN keywords : keywords[i] \in Range(activity)}
        fromActivity ==
            IF found = {} THEN <<>>
            ELSE Strip(Before(SecondPart(activity, keywords[Min(found)]), {"comma"}))
        p == IF poi # <<>> THEN poi ELSE fromActivity
    IN  IF p # <<>> THEN p ELSE <<"tbd">>

RECURSIVE JoinTips(_)
\* "；".join(str(t) for t in tips)
JoinTips(items) ==
    IF items = <<>> THEN <<>>
    ELSE IF Len(items) = 1 THEN items[1]
    ELSE items[1] \o <<"semi">> \o JoinTips(Tail(items))

normalize_schedule_item(item) ==
    LET tips == IF item.tips.kind = "list" THEN JoinTips(item.tips.items)
                ELSE IF item.tips.kind = "str" THEN item.tips.items[1]
                ELSE <<>>
    IN  [poi |-> get_poi(item),
         activity |-> GetOr(item.activity, <<>>),
         duration |-> GetOr(item.duration, <<"1h">>),
         tips |-> tips]

\* ScheduleItem(**item): str fields are kept as they are, absent ones take
\* their default "", a list where Optional[str] is declared is refused
ScheduleItem(item) ==
    IF item.tips.kind = "list" THEN [ok |-> FALSE, item |-> normalize_schedule_item(item)]
    ELSE [ok |-> TRUE,
          item |-> [poi |-> GetOr(item.poi, <<>>),
                    activity |-> GetOr(item.activity, <<>>),
                    duration |-> GetOr(item.duration, <<>>),
                    tips |-> IF item.tips.kind = "str" THEN item.tips.items[1] ELSE <<>>]]

\* the schedule of the day plan_node builds from a parsed plan whose day
\* holds `item`; a refused item ends in _create_fallback_result, whose days
\* have an empty schedule
plan_node_schedule(item) ==
    IF ScheduleItem(item).ok THEN <<ScheduleItem(item).item>> ELSE <<>>

\* the schedule _create_fallback_plan builds for a day of the best route
\* whose places hold `place`
fallback_schedule(place) ==
    <<[poi |-> place, activity |-> <<"visit">>, duration |-> <<"2h">>, tips |-> <<>>]>>

TipsValues ==
    {[kind |-> "missing", items |-> <<>>]}
    \cup {[kind |-> "str", items |-> <<t>>] : t \in {<<>>, <<"A">>}}
    \cup {[kind |-> "list", items |-> l] : l \in {<<>>, <<<<"A">>>>, <<<<"A">>, <<"B">>>>}}

Items ==
    [poi : {Absent} \cup {Present(t) : t \in Texts},
     activity : {Absent} \cup {Present(t) : t \in Texts},
     duration : {Absent, Present(<<>>), Present(<<"2h">>)},
     tips : TipsValues]

NoSchedule == [called |-> FALSE, by |-> "", items |-> <<>>]

ScheduleInit ==
    /\ sched_in \in Items
    /\ sched_out = NoSchedule

ScheduleFrame ==
    UNCHANGED <<mergeVars, gateVars, runVars, planVars, parseVars,
                budgetVars, filterVars, loopVars, genVars, likesVars, scoreVars,
        noteVars,
        compVars,
        storeVars,
        chatVars>>

\* the item is one of an LLM plan that nodes.py normalises
NormalizeItem ==
    /\ ~sched_out.called
    /\ sched_out' = [called |-> TRUE, by |-> "normalize",
                     items |-> <<normalize_schedule_item(sched_in)>>]
    /\ UNCHANGED sched_in
    /\ ScheduleFrame

\* the item is one of the plan the LLM gave plan_node
PlanItem ==
    /\ ~sched_out.called
    /\ sched_out' = [called |-> TRUE, by |-> "plan", items |-> plan_node_schedule(sched_in)]
    /\ UNCHANGED sched_in
    /\ ScheduleFrame

\* the item's poi text is a place of an extracted route and plan_node falls
\* back to _create_fallback_plan
FallbackItem ==
    /\ ~sched_out.called
    /\ sched_in.poi.has
    /\ sched_out' = [called |-> TRUE, by |-> "fallback",
                     items |-> fallback_schedule(sched_in.poi.text)]
    /\ UNCHANGED sched_in
    /\ ScheduleFrame

ScheduleIdle ==
    /\ sched_in = [poi |-> Absent, activity |-> Absent, duration |-> Absent,
                   tips |-> [kind |-> "missing", items |-> <<>>]]
    /\ sched_out = NoSchedule

ScheduleNext == NormalizeItem \/ PlanItem \/ FallbackItem

-----------------------------------------------------------------------------
(***************************************************************************)
(* The note merge of search_node (agents/travel_workflow.py 414-436; the   *)
(* same code in optimized_search_node, agents/optimized_nodes.py 309-325)  *)
(* over several rounds, with notes that carry a title and a content.       *)
(***************************************************************************)
MaxNoteRounds == 3
MaxFiltered == 2

SearchNote(title, content) == [title |-> title, content |-> content]

FilteredNotes == {SearchNote(t, c) : t \in {"t1", "t2"}, c \in {"a", "b"}}

\* what filter_and_compress hands to the merge in one round
FilteredLists == UNION {[1..n -> FilteredNotes] : n \in 0..MaxFiltered}

\* every note appended, seen title or not
merge_append_all(notes, filtered) == notes \o filtered

\* state["search_results"] after the merge of one round: the kept notes
\* first, then each filtered note whose title is unseen (after[i] is the
\* list after i filtered notes)
merge_round(notes, filtered) ==
    LET after[i \in 0..Len(filtered)] ==
            IF i = 0 THEN notes
            ELSE IF filtered[i].title \in {after[i - 1][k].title : k \in DOMAIN after[i - 1]}
                 THEN after[i - 1]
                 ELSE Append(after[i - 1], filtered[i])
    IN  after[Len(filtered)]

NotesInit ==
    /\ notes_acc = <<>>
    /\ notes_last = <<>>
    /\ notes_round = 0

\* one round of search_node: with no note found (all_notes empty) the
\* results are left alone, else the filtered notes are merged in
NotesRound ==
    /\ notes_round < MaxNoteRounds
    /\ notes_round' = notes_round + 1
    /\ \E found \in BOOLEAN, filtered \in FilteredLists :
          /\ ~found => filtered = <<>>
          /\ notes_last' = filtered
          /\ notes_acc' = IF found THEN merge_round(notes_acc, filtered) ELSE notes_acc

NotesIdle ==
    /\ notes_acc = <<>>
    /\ notes_last = <<>>
    /\ notes_round = 0

NotesFrame ==
    UNCHANGED <<mergeVars, gateVars, runVars, planVars, parseVars,
                budgetVars, filterVars, loopVars, genVars, likesVars, scoreVars, schedVars,
        compVars,
        storeVars,
        chatVars>>

NotesNext == NotesRound /\ NotesFrame

-----------------------------------------------------------------------------
(***************************************************************************)
(* InformationValueEvaluator._compress_content                             *)
(* (utils/value_evaluator.py 480-531).  A content is its paragraphs, the   *)
(* lines between its newlines; a paragraph is its length and the score its *)
(* keywords and patterns give it, and has no blanks at its ends.  A text   *)
(* that is returned is told by its length.                                 *)
(***************************************************************************)
MaxParas == 3

Para(len, score) == [len |-> len, score |-> score]

Paras == {Para(l, s) : l \in {3, 30, 60, 120}, s \in {0, 3}}

Contents == UNION {[1..n -> Paras] : n \in 0..MaxParas}

MaxChars == {0, 40, 100, 200}

RECURSIVE SumLen(_)
SumLen(ps) == IF ps = <<>> THEN 0 ELSE Head(ps).len + SumLen(Tail(ps))

\* len('\n'.join(ps))
JoinedLen(ps) == IF ps = <<>> THEN 0 ELSE SumLen(ps) + Len(ps) - 1

\* key (score, -len) of a sorts before that of b under reverse=True
SortsBefore(a, b) == a.score > b.score \/ (a.score = b.score /\ a.len < b.len)

RECURSIVE InsertPara(_, _)
InsertPara(sorted, p) ==
    IF sorted = <<>> THEN <<p>>
    ELSE IF SortsBefore(p, Head(sorted)) THEN <<p>> \o sorted
    ELSE <<Head(sorted)>> \o InsertPara(Tail(sorted), p)

RECURSIVE SortParas(_)
\* scored_paras.sort(key=lambda x: (x[1], -x[2]), reverse=True): stable
SortParas(ps) ==
    IF ps = <<>> THEN <<>>
    ELSE InsertPara(SortParas(SubSeq(ps, 1, Len(ps) - 1)), ps[Len(ps)])

RECURSIVE TakeParas(_, _, _, _)
\* the loop over scored_paras: result holds the lengths of the pieces kept
TakeParas(scored, result, current_len, max_chars) ==
    IF scored = <<>> THEN result
    ELSE IF current_len + Head(scored).len > max_chars
    THEN LET remaining == max_chars - current_len
         IN  IF remaining > 50
             THEN Append(result, Para(remaining + 3, Head(scored).score))
             ELSE result
    ELSE TakeParas(Tail(scored), Append(result, Head(scored)),
                   current_len + Head(scored).len + 1, max_chars)

\* the length of what _compress_content returns
compress_content(content, max_chars) ==
    IF content = <<>> \/ JoinedLen(content) <= max_chars THEN JoinedLen(content)
    ELSE LET scored_paras == SortParas(SelectSeq(content, LAMBDA p : p.len >= 5))
             result == TakeParas(scored_paras, <<>>, 0, max_chars)
         IN  IF result # <<>> THEN JoinedLen(result)
             ELSE IF JoinedLen(content) < max_chars THEN JoinedLen(content)
             ELSE max_chars

NotCompressed == [called |-> FALSE, len |-> 0]

CompressInit ==
    /\ comp_content \in Contents
    /\ comp_max \in MaxChars
    /\ comp_out = NotCompressed

CompressCall ==
    /\ ~comp_out.called
    /\ comp_out' = [called |-> TRUE, len |-> compress_content(comp_content, comp_max)]
    /\ UNCHANGED <<comp_content, comp_max>>

CompressIdle ==
    /\ comp_content = <<>>
    /\ comp_max = 0
    /\ comp_out = NotCompressed

CompressFrame ==
    UNCHANGED <<mergeVars, gateVars, runVars, planVars, parseVars,
                budgetVars, filterVars, loopVars, genVars, likesVars, scoreVars, schedVars, noteVars,
        storeVars,
        chatVars>>

CompressNext == CompressCall /\ CompressFrame

-----------------------------------------------------------------------------
(***************************************************************************)
(* MultiPlanStore (services/multi_plan_store.py): the Redis hash           *)
(* travel_plans:{session_id} of one session and the calls create_plan,     *)
(* set_active_plan and delete_plan on it, one Redis command (or one        *)
(* executed pipeline) per step.  A caller runs one call at a time; the     *)
(* callers of a web server run side by side.  Redis is connected.          *)
(***************************************************************************)
MaxStoreOps == 4

\* the ids uuid4 gives, each once
NewIds == <<"plan_1", "plan_2", "plan_3", "plan_4", "plan_5">>

FIELD_ACTIVE == "_active"
FIELD_ORDER == "_order"

\* the plan_id of a request: an id that was or will be given, one that never
\* is, and, for any caller of the router, the reserved field names
StoredIds == {NewIds[i] : i \in 1..2} \cup {"plan_x"}
RequestIds == StoredIds \cup {FIELD_ACTIVE, FIELD_ORDER}

Callers == {1, 2}

\* the hash: its plan fields, and the fields _order and _active when set
EmptyHash == [plans |-> {}, has_order |-> FALSE, order |-> <<>>,
              has_active |-> FALSE, active |-> ""]

hexists(hash, f) ==
    \/ f \in hash.plans
    \/ f = FIELD_ORDER /\ hash.has_order
    \/ f = FIELD_ACTIVE /\ hash.has_active

\* json.loads(order_json) if order_json else []
hget_order(hash) == IF hash.has_order THEN hash.order ELSE <<>>

hdel(hash, f) ==
    [hash EXCEPT !.plans = @ \ {f},
                 !.has_order = IF f = FIELD_ORDER THEN FALSE ELSE @,
                 !.order = IF f = FIELD_ORDER THEN <<>> ELSE @,
                 !.has_active = IF f = FIELD_ACTIVE THEN FALSE ELSE @,
                 !.active = IF f = FIELD_ACTIVE THEN "" ELSE @]

hset_order(hash, order) == [hash EXCEPT !.has_order = TRUE, !.order = order]
hset_active(hash, id) == [hash EXCEPT !.has_active = TRUE, !.active = id]

\* order.remove(plan_id) if plan_id in order
RemoveFirst(order, id) ==
    LET I == {i \in DOMAIN order : order[i] = id}
    IN  IF I = {} THEN order
        ELSE SubSeq(order, 1, Min(I) - 1) \o SubSeq(order, Min(I) + 1, Len(order))

Resting == [pc |-> "idle", plan_id |-> "", order |-> <<>>, was_active |-> FALSE]

StoreInit ==
    /\ store_hash = EmptyHash
    /\ store_ops = 0
    /\ store_call = [c \in Callers |-> Resting]

StoreFrame ==
    UNCHANGED <<mergeVars, gateVars, runVars, planVars, parseVars,
                budgetVars, filterVars, loopVars, genVars,
                likesVars, scoreVars, schedVars, noteVars, compVars,
        chatVars>>

\* create_plan up to its read of _order: the new id, the order with it
CreateRead(c) ==
    /\ store_call[c].pc = "idle"
    /\ store_ops < MaxStoreOps
    /\ store_ops' = store_ops + 1
    /\ store_call' = [store_call EXCEPT ![c] =
           [pc |-> "create_exec", plan_id |-> NewIds[store_ops + 1],
            order |-> Append(hget_order(store_hash), NewIds[store_ops + 1]),
            was_active |-> FALSE]]
    /\ UNCHANGED store_hash
    /\ StoreFrame

\* create_plan's pipeline: the plan, _order, _active
CreateExec(c) ==
    /\ store_call[c].pc = "create_exec"
    /\ store_hash' = hset_active(
           hset_order([store_hash EXCEPT !.plans = @ \cup {store_call[c].plan_id}],
                      store_call[c].order),
           store_call[c].plan_id)
    /\ store_call' = [store_call EXCEPT ![c] = Resting]
    /\ UNCHANGED store_ops
    /\ StoreFrame

\* set_active_plan up to hexists
SetActiveExists(c, ids) ==
    /\ store_call[c].pc = "idle"
    /\ store_ops < MaxStoreOps
    /\ store_ops' = store_ops + 1
    /\ \E id \in ids :
          store_call' = [store_call EXCEPT ![c] =
              IF hexists(store_hash, id)
              THEN [pc |-> "set_active", plan_id |-> id, order |-> <<>>,
                    was_active |-> FALSE]
              ELSE Resting]
    /\ UNCHANGED store_hash
    /\ StoreFrame

\* set_active_plan's hset
SetActiveSet(c) ==
    /\ store_call[c].pc = "set_active"
    /\ store_hash' = hset_active(store_hash, store_call[c].plan_id)
    /\ store_call' = [store_call EXCEPT ![c] = Resting]
    /\ UNCHANGED store_ops
    /\ StoreFrame

\* delete_plan up to hexists
DeleteExists(c, ids) ==
    /\ store_call[c].pc = "idle"
    /\ store_ops < MaxStoreOps
    /\ store_ops' = store_ops + 1
    /\ \E id \in ids :
          store_call' = [store_call EXCEPT ![c] =
              IF hexists(store_hash, id)
              THEN [pc |-> "delete_order", plan_id |-> id, order |-> <<>>,
                    was_active |-> FALSE]
              ELSE Resting]
    /\ UNCHANGED store_hash
    /\ StoreFrame

\* delete_plan's read of _order, the id removed from it
DeleteReadOrder(c) ==
    /\ store_call[c].pc = "delete_order"
    /\ store_call' = [store_call EXCEPT ![c].pc = "delete_active",
                         ![c].order = RemoveFirst(hget_order(store_hash),
                                                  store_call[c].plan_id)]
    /\ UNCHANGED <<store_hash, store_ops>>
    /\ StoreFrame

\* delete_plan's read of _active, compared with plan_id
DeleteReadActive(c) ==
    /\ store_call[c].pc = "delete_active"
    /\ store_call' = [store_call EXCEPT ![c].pc = "delete_exec",
                         ![c].was_active = (store_hash.has_active
                                            /\ store_hash.active = store_call[c].plan_id)]
    /\ UNCHANGED <<store_hash, store_ops>>
    /\ StoreFrame

\* delete_plan's pipeline: hdel, _order, and _active when it was plan_id
DeleteExec(c) ==
    /\ store_call[c].pc = "delete_exec"
    /\ store_hash' =
          LET h == hset_order(hdel(store_hash, store_call[c].plan_id), store_call[c].order)
          IN  IF store_call[c].was_active
              THEN hset_active(h, IF store_call[c].order # <<>>
                                  THEN store_call[c].order[1] ELSE "")
              ELSE h
    /\ store_call' = [store_call EXCEPT ![c] = Resting]
    /\ UNCHANGED store_ops
    /\ StoreFrame

StoreIdle ==
    /\ store_hash = EmptyHash
    /\ store_ops = 0
    /\ store_call = [c \in Callers |-> Resting]

\* one caller, any plan_id
StoreNext ==
    \/ CreateRead(1) \/ CreateExec(1)
    \/ SetActiveExists(1, RequestIds) \/ SetActiveSet(1)
    \/ DeleteExists(1, RequestIds) \/ DeleteReadOrder(1)
    \/ DeleteReadActive(1) \/ DeleteExec(1)

\* two callers side by side, plan ids only
RaceNext ==
    \E c \in Callers :
        \/ CreateRead(c) \/ CreateExec(c)
        \/ SetActiveExists(c, StoredIds) \/ SetActiveSet(c)
        \/ DeleteExists(c, StoredIds) \/ DeleteReadOrder(c)
        \/ DeleteReadActive(c) \/ DeleteExec(c)

-----------------------------------------------------------------------------
(***************************************************************************)
(* The chat endpoint (main.py 128-199) serving several requests on one     *)
(* event loop, and the session id the shared TravelPlanTool instance uses  *)
(* (tools/travel_plan_tool.py 53-74, tools/tools.py 1576-1596,             *)
(* utils/context.py).  The handler runs from its start to its first await  *)
(* (the agent's LLM call) in one step; the context variable is the         *)
(* request's own, the tool's _current_session_id is the instance's.        *)
(***************************************************************************)
MaxRequests == 3
MaxToolRuns == 2

Requests == 1..MaxRequests

\* req.session_id of a request
ChatSessions == {"s1", "s2", "s3"}

NewRequest == [pc |-> "new", session |-> "", context |-> "", used |-> <<>>]

\* final_session_id = self._current_session_id or get_session_id()
final_session_id(current_session_id, context) ==
    IF current_session_id # "" THEN current_session_id ELSE context

ChatInit ==
    /\ tool_session = ""
    /\ chat_req = [r \in Requests |-> NewRequest]

ChatFrame ==
    UNCHANGED <<mergeVars, gateVars, runVars, planVars, parseVars,
                budgetVars, filterVars, loopVars, genVars,
                likesVars, scoreVars, schedVars, noteVars, compVars, storeVars>>

\* chat up to achat: set_session_id(session_id), tool.set_session_id(session_id)
ChatBegin(r) ==
    /\ chat_req[r].pc = "new"
    /\ \E s \in ChatSessions :
          /\ chat_req' = [chat_req EXCEPT ![r] =
                 [pc |-> "agent", session |-> s, context |-> s, used |-> <<>>]]
          /\ tool_session' = s
    /\ ChatFrame

\* the agent of request r calls the tool: _run reads the session id
ChatRunTool(r) ==
    /\ chat_req[r].pc = "agent"
    /\ Len(chat_req[r].used) < MaxToolRuns
    /\ chat_req' = [chat_req EXCEPT ![r].used =
           Append(@, final_session_id(tool_session, chat_req[r].context))]
    /\ UNCHANGED tool_session
    /\ ChatFrame

\* achat is exhausted, the reply is saved and returned
ChatReturn(r) ==
    /\ chat_req[r].pc = "agent"
    /\ chat_req' = [chat_req EXCEPT ![r].pc = "done"]
    /\ UNCHANGED tool_session
    /\ ChatFrame

ChatIdle ==
    /\ tool_session = ""
    /\ chat_req = [r \in Requests |-> NewRequest]

ChatNext ==
    \E r \in Requests : ChatBegin(r) \/ ChatRunTool(r) \/ ChatReturn(r)

UnitIdle ==
    PlanIdle /\ ParseIdle /\ BudgetIdle /\ FilterIdle /\ SearchIdle /\ GenIdle /\ LikesIdle /\ ScoreIdle /\ ScheduleIdle /\ NotesIdle /\ CompressIdle /\ StoreIdle /\ ChatIdle

-----------------------------------------------------------------------------
(* One planning run: the graph of create_travel_graph, started by a tool or *)
(* directly.                                                                *)

MaxSearches == 3

SessionIds == {"", "s1"}

\* What one round's searches and filter_and_compress produce.
\*   none:   no query returned a note (all_notes is empty)
\*   notes:  the filtered notes, by title
\*   raise:  a note that is not a dict makes the evaluator raise
SearchOutcomes ==
    {[kind |-> "none", filtered |-> <<>>],
     [kind |-> "notes", filtered |-> <<>>],
     [kind |-> "notes", filtered |-> <<"t1">>],
     [kind |-> "notes", filtered |-> <<"t2", "t1", "t2">>],
     [kind |-> "raise", filtered |-> <<>>]}

RECURSIVE MergeNotes(_, _)
\* existing notes first, then each filtered note whose title is unseen
MergeNotes(notes, filtered) ==
    IF filtered = <<>> THEN notes
    ELSE MergeNotes(IF Head(filtered) \in Range(notes) THEN notes
                    ELSE Append(notes, Head(filtered)),
                    Tail(filtered))

\* what the extraction LLM call and the parse give: the call raises, the
\* merge raises in its places section (places is null), or a payload
ExtractPayloads ==
    {EmptyInfo, FullPayload,
     OnlyPlaces(<<Place("Old Tower", "ticket", ""), Place("Wall", "ticket", "paid")>>),
     OnlyAvoid(<<Dict("taxi touts")>>),
     OnlyRoutes(<<Route("note2", 2, <<>>)>>)}

ExtractOutcomes ==
    {[kind |-> "llm_error", new |-> EmptyInfo]}
    \cup {[kind |-> "merged", new |-> new] : new \in ExtractPayloads}
    \cup {[kind |-> "merge_error", new |-> OnlyRoutes(<<Route("note3", 1, <<"d1">>)>>)]}

\* except: always start again from {}
extract_failed_reset(info) == EmptyInfo

\* except: keep what is there, or {} when there is nothing
extract_failed(info) == IF info.hasKeys THEN info ELSE EmptyInfo

\* the merge raised after its routes section: existing_routes is the list
\* object of the accumulator when that has a "routes" key, so the appended
\* routes stay; merged itself is dropped
merge_failed_in_places(info, new) ==
    IF info.hasKeys THEN [info EXCEPT !.routes = MergeRoutes(info.routes, new.routes)]
    ELSE EmptyInfo

PlanOutcomes == {"llm_plan", "fallback_plan", "fallback_result"}

\* the two edges of the mapping swapped
edge_target_swapped(result) == IF result = "need_more" THEN "plan" ELSE "search"

\* add_conditional_edges("extract", check_info_quality, {...})
edge_target(result) == IF result = "need_more" THEN "search" ELSE "plan"

\* check_info_quality runs as the routing function of the conditional edge:
\* it is handed a state read from the graph's channels and returns only the
\* edge name, so what it stores under "_missing_info" is not a state update.
missing_info_after_edge(channel, out) == channel

RunInit ==
    /\ pc = "start"
    /\ entry \in Entries
    /\ session_id \in SessionIds
    /\ graph \in BOOLEAN
    /\ entry = "graph.invoke" => graph
    /\ redis_connected \in BOOLEAN
    /\ max_searches \in 0..MaxSearches
    /\ search_count = 0
    /\ searched_queries = <<>>
    /\ missing_info = <<>>
    /\ search_results = <<>>
    /\ extracted_info = EmptyInfo
    /\ final_result = "None"
    /\ current_plan_id = ""
    /\ response = "none"
    /\ search_runs = 0 /\ extract_runs = 0 /\ plan_runs = 0
    /\ edge = NotCalled
    /\ round_queries = <<>>
    /\ passed_missing = <<>>
    /\ last_extract = "none"

graphVars == <<search_count, searched_queries, missing_info, search_results,
               extracted_info, final_result, current_plan_id, search_runs,
               extract_runs, plan_runs, edge, round_queries, passed_missing,
               last_extract>>
\* the inputs of the run, and the variables a run does not use
inputVars == <<entry, session_id, graph, redis_connected, max_searches,
               mergeVars, gateVars, unitVars>>

\* TravelPlanTool._run up to graph.invoke
ToolRun ==
    /\ pc = "start" /\ entry \in Tools
    /\ IF run_preamble_raises(entry, session_id)
          THEN pc' = "returned" /\ response' = "exception"
          ELSE IF ~graph
               THEN pc' = "returned" /\ response' = handle_error(session_id)
               ELSE pc' = "search" /\ response' = response
    /\ UNCHANGED <<inputVars, graphVars>>

\* graph.invoke(initial_state) called directly (tests/test_travel_workflow.py)
GraphInvoke ==
    /\ pc = "start" /\ entry = "graph.invoke"
    /\ pc' = "search"
    /\ UNCHANGED <<inputVars, graphVars, response>>

\* if not queries: the node raises instead of returning
search_node_no_queries_raises(count) ==
    /\ pc' = "raised"
    /\ UNCHANGED <<search_count, searched_queries, missing_info, search_results>>

\* if not queries: return state, with the round counted and nothing else
search_node_no_queries(count) ==
    /\ search_count' = count
    /\ pc' = "extract"
    /\ UNCHANGED <<searched_queries, missing_info, search_results>>

search_node(out, found) ==
    LET count   == search_count + 1
        missing == IF missing_info # <<>> THEN missing_info ELSE DefaultMissing
        queries == IF count = 1 THEN generate_core_queries(out)
                   ELSE generate_supplement_queries(out, searched_queries, missing)
    IN  /\ pc = "search"
        /\ search_runs' = search_runs + 1
        /\ passed_missing' = IF count = 1 THEN <<>> ELSE missing
        /\ round_queries' = queries
        /\ IF queries = <<>>
              THEN /\ found.kind = "none"
                   /\ search_node_no_queries(count)
              ELSE IF found.kind = "raise"
              THEN /\ pc' = "raised"
                   /\ UNCHANGED <<search_count, searched_queries, missing_info,
                                  search_results>>
              ELSE /\ search_count' = count
                   /\ search_results' =
                          IF found.kind = "none" THEN search_results
                          ELSE MergeNotes(search_results, found.filtered)
                   /\ searched_queries' = searched_queries \o queries
                   /\ missing_info' = <<>>
                   /\ pc' = "extract"
        /\ UNCHANGED <<inputVars, response, extracted_info, final_result,
                       current_plan_id, extract_runs, plan_runs, edge, last_extract>>

SearchNode ==
    \E found \in SearchOutcomes :
        \/ search_count = 0 /\ \E out \in CoreOutputs : search_node(out, found)
        \/ search_count > 0 /\ \E out \in SupplementOutputs : search_node(out, found)

extract_node(outcome) ==
    /\ pc = "extract"
    /\ extract_runs' = extract_runs + 1
    /\ IF search_results = <<>>
          THEN /\ outcome.kind = "llm_error"
               /\ extracted_info' = EmptyInfo
               /\ last_extract' = "no_notes"
          ELSE /\ extracted_info' =
                      CASE outcome.kind = "llm_error" -> extract_failed(extracted_info)
                        [] outcome.kind = "merge_error" ->
                               extract_failed(merge_failed_in_places(extracted_info,
                                                                     outcome.new))
                        [] OTHER -> merge_extracted_info(extracted_info, outcome.new)
               /\ last_extract' = outcome.kind
    /\ pc' = "check"
    /\ edge' = NotCalled
    /\ UNCHANGED <<inputVars, response, search_count, searched_queries, missing_info,
                   search_results, final_result, current_plan_id, search_runs,
                   plan_runs, round_queries, passed_missing>>

ExtractNode == \E outcome \in ExtractOutcomes : extract_node(outcome)

\* the conditional edge after extract
CheckEdge ==
    /\ pc = "check"
    /\ LET out == check_info_quality(extracted_info, search_count, max_searches)
       IN  /\ edge' = out
           /\ pc' = edge_target(out.result)
           /\ missing_info' = missing_info_after_edge(missing_info, out)
    /\ UNCHANGED <<inputVars, response, search_count, searched_queries,
                   search_results, extracted_info, final_result, current_plan_id,
                   search_runs, extract_runs, plan_runs, round_queries,
                   passed_missing, last_extract>>

\* _save_result: multi_plan_store.create_plan gives an id when there is a
\* session id and redis answers
save_result(sid, connected) == IF sid # "" /\ connected THEN "plan_1" ELSE ""

plan_node(outcome) ==
    /\ pc = "plan"
    /\ plan_runs' = plan_runs + 1
    /\ final_result' = outcome
    /\ current_plan_id' = save_result(session_id, redis_connected)
    /\ pc' = "end"
    /\ UNCHANGED <<inputVars, response, search_count, searched_queries, missing_info,
                   search_results, extracted_info, search_runs, extract_runs, edge,
                   round_queries, passed_missing, last_extract>>

PlanNode == \E outcome \in PlanOutcomes : plan_node(outcome)

\* _run after graph.invoke returned: _process_result on the final state; no
\* node of this graph sets draft_plan or planning_rules
ToolReturn ==
    /\ pc = "end" /\ entry \in Tools
    /\ response' = process_result(final_result, FALSE, FALSE)
    /\ pc' = "returned"
    /\ UNCHANGED <<inputVars, graphVars>>

\* _run when graph.invoke raised: the except block
ToolExcept ==
    /\ pc = "raised" /\ entry \in Tools
    /\ response' = handle_error(session_id)
    /\ pc' = "returned"
    /\ UNCHANGED <<inputVars, graphVars>>

RunIdle ==
    /\ pc = "idle" /\ entry = "graph.invoke" /\ session_id = "" /\ graph = TRUE
    /\ redis_connected = TRUE /\ max_searches = 0
    /\ search_count = 0 /\ searched_queries = <<>> /\ missing_info = <<>>
    /\ search_results = <<>> /\ extracted_info = EmptyInfo /\ final_result = "None"
    /\ current_plan_id = "" /\ response = "none"
    /\ search_runs = 0 /\ extract_runs = 0 /\ plan_runs = 0 /\ edge = NotCalled
    /\ round_queries = <<>> /\ passed_missing = <<>> /\ last_extract = "none"

Init == RunInit /\ MergeIdle /\ GateIdle /\ UnitIdle

InitMerge == MergeInit /\ GateIdle /\ RunIdle /\ UnitIdle

InitGate == GateInit /\ MergeIdle /\ RunIdle /\ UnitIdle

\* the state of everything but the components driven on their own
RestIdle == MergeIdle /\ GateIdle /\ RunIdle

InitPlan ==
    /\ PlanInit /\ RestIdle
    /\ ParseIdle /\ BudgetIdle /\ FilterIdle /\ SearchIdle /\ GenIdle /\ LikesIdle /\ ScoreIdle /\ ScheduleIdle /\ NotesIdle /\ CompressIdle /\ StoreIdle /\ ChatIdle

InitParse ==
    /\ ParseInit /\ RestIdle
    /\ PlanIdle /\ BudgetIdle /\ FilterIdle /\ SearchIdle /\ GenIdle /\ LikesIdle /\ ScoreIdle /\ ScheduleIdle /\ NotesIdle /\ CompressIdle /\ StoreIdle /\ ChatIdle

InitBudget ==
    /\ BudgetInit /\ RestIdle
    /\ PlanIdle /\ ParseIdle /\ FilterIdle /\ SearchIdle /\ GenIdle /\ LikesIdle /\ ScoreIdle /\ ScheduleIdle /\ NotesIdle /\ CompressIdle /\ StoreIdle /\ ChatIdle

InitFilter ==
    /\ FilterInit /\ RestIdle
    /\ PlanIdle /\ ParseIdle /\ BudgetIdle /\ SearchIdle /\ GenIdle /\ LikesIdle /\ ScoreIdle /\ ScheduleIdle /\ NotesIdle /\ CompressIdle /\ StoreIdle /\ ChatIdle

InitSearch ==
    /\ SearchInit /\ RestIdle
    /\ PlanIdle /\ ParseIdle /\ BudgetIdle /\ FilterIdle /\ GenIdle /\ LikesIdle /\ ScoreIdle /\ ScheduleIdle /\ NotesIdle /\ CompressIdle /\ StoreIdle /\ ChatIdle

InitQueries ==
    /\ GenInit /\ RestIdle
    /\ PlanIdle /\ ParseIdle /\ BudgetIdle /\ FilterIdle /\ SearchIdle /\ LikesIdle /\ ScoreIdle /\ ScheduleIdle /\ NotesIdle /\ CompressIdle /\ StoreIdle /\ ChatIdle

InitLikes ==
    /\ LikesInit /\ RestIdle
    /\ PlanIdle /\ ParseIdle /\ BudgetIdle /\ FilterIdle /\ SearchIdle /\ GenIdle /\ ScoreIdle /\ ScheduleIdle /\ NotesIdle /\ CompressIdle /\ StoreIdle /\ ChatIdle

InitScore ==
    /\ ScoreInit /\ RestIdle
    /\ PlanIdle /\ ParseIdle /\ BudgetIdle /\ FilterIdle /\ SearchIdle /\ GenIdle /\ LikesIdle /\ ScheduleIdle /\ NotesIdle /\ CompressIdle /\ StoreIdle /\ ChatIdle

InitSchedule ==
    /\ ScheduleInit /\ RestIdle
    /\ PlanIdle /\ ParseIdle /\ BudgetIdle /\ FilterIdle /\ SearchIdle /\ GenIdle /\ LikesIdle /\ ScoreIdle /\ NotesIdle /\ CompressIdle /\ StoreIdle /\ ChatIdle

InitNotes ==
    /\ NotesInit /\ RestIdle
    /\ PlanIdle /\ ParseIdle /\ BudgetIdle /\ FilterIdle /\ SearchIdle /\ GenIdle /\ LikesIdle /\ ScoreIdle /\ ScheduleIdle /\ CompressIdle /\ StoreIdle /\ ChatIdle

InitCompress ==
    /\ CompressInit /\ RestIdle
    /\ PlanIdle /\ ParseIdle /\ BudgetIdle /\ FilterIdle /\ SearchIdle /\ GenIdle /\ LikesIdle /\ ScoreIdle /\ ScheduleIdle /\ NotesIdle /\ StoreIdle /\ ChatIdle

InitStore ==
    /\ StoreInit /\ RestIdle
    /\ PlanIdle /\ ParseIdle /\ BudgetIdle /\ FilterIdle /\ SearchIdle /\ GenIdle /\ LikesIdle /\ ScoreIdle /\ ScheduleIdle /\ NotesIdle /\ CompressIdle /\ ChatIdle

InitChat ==
    /\ ChatInit /\ RestIdle
    /\ PlanIdle /\ ParseIdle /\ BudgetIdle /\ FilterIdle /\ SearchIdle /\ GenIdle /\ LikesIdle /\ ScoreIdle /\ ScheduleIdle /\ NotesIdle /\ CompressIdle /\ StoreIdle

Next ==
    \/ ToolRun
    \/ GraphInvoke
    \/ SearchNode
    \/ ExtractNode
    \/ CheckEdge
    \/ PlanNode
    \/ ToolReturn
    \/ ToolExcept

Spec == Init /\ [][Next]_vars

SpecMerge == InitMerge /\ [][MergeNext]_vars

SpecPlaces == InitMerge /\ [][PlacesNext]_vars

SpecGate == InitGate /\ [][GateNext]_vars

SpecPlan == InitPlan /\ [][PlanNext]_vars

SpecParse == InitParse /\ [][ParseNext]_vars

SpecBudget == InitBudget /\ [][BudgetNext]_vars

SpecFilter == InitFilter /\ [][FilterNext]_vars

SpecSearch == InitSearch /\ [][SearchNext]_vars

SpecQueries == InitQueries /\ [][GenNext]_vars

SpecLikes == InitLikes /\ [][LikesNext]_vars

SpecScore == InitScore /\ [][ScoreNext]_vars

SpecSchedule == InitSchedule /\ [][ScheduleNext]_vars

SpecNotes == InitNotes /\ [][NotesNext]_vars

SpecCompress == InitCompress /\ [][CompressNext]_vars

SpecStore == InitStore /\ [][StoreNext]_vars

SpecRace == InitStore /\ [][RaceNext]_vars

SpecChat == InitChat /\ [][ChatNext]_vars

-----------------------------------------------------------------------------
(* Properties of the merger *)

SameArea(a, b) ==
    /\ a.area = b.area /\ a.transport = b.transport /\ a.price_range = b.price_range
    /\ BagOfSeq(a.reasons) = BagOfSeq(b.reasons)
    /\ BagOfSeq(a.nearby) = BagOfSeq(b.nearby)

\* Equality collection by collection; a list the code builds from a set is
\* compared as a multiset, so that only its content counts, not its order.
SameCollections(a, b) ==
    /\ a.routes = b.routes
    /\ a.places = b.places
    /\ a.transportation.present = b.transportation.present
    /\ a.transportation.arrival = b.transportation.arrival
    /\ BagOfSeq(a.transportation.local) = BagOfSeq(b.transportation.local)
    /\ a.accommodation.present = b.accommodation.present
    /\ Len(a.accommodation.recommended_areas) = Len(b.accommodation.recommended_areas)
    /\ \A i \in DOMAIN a.accommodation.recommended_areas :
           i \in DOMAIN b.accommodation.recommended_areas
           /\ SameArea(a.accommodation.recommended_areas[i],
                       b.accommodation.recommended_areas[i])
    /\ BagOfSeq(a.accommodation.tips) = BagOfSeq(b.accommodation.tips)
    /\ a.food = b.food
    /\ a.avoid = b.avoid
    /\ BagOfSeq(a.tips) = BagOfSeq(b.tips)

\* C3: _merge_extracted_info is idempotent: merging the payload that was just
\* merged once more leaves every collection (routes, places, transportation,
\* accommodation, food, avoid, tips) as it is, also for a payload whose lists
\* repeat an entry.
C3_MergeIdempotent == merges > 0 => SameCollections(remerged, merged)

PlaceNamed(places, n) == {i \in DOMAIN places : places[i].name = n}

\* the value of detail field k of place n in a place list, "" when absent
FieldOf(places, n, k) ==
    IF PlaceNamed(places, n) = {} THEN ""
    ELSE places[CHOOSE i \in PlaceNamed(places, n) : TRUE][k]

\* the records of a payload that carry field k of place n
Carriers(places, n, k) == {j \in PlaceNamed(places, n) : places[j][k] # ""}

FirstOf(S) == CHOOSE i \in S : \A j \in S : i <= j

\* C4: after any sequence of merges from an empty accumulator the places list
\* holds exactly one entry per place name seen so far; a detail field that is
\* non-empty keeps its value through every later merge; an empty field takes
\* the value of the first later record that carries it.
C4_PlacesKeyedFillOnce ==
    /\ \A i, j \in DOMAIN merged.places :
           merged.places[i].name = merged.places[j].name => i = j
    /\ {p.name : p \in Range(merged.places)}
           = {p.name : p \in Range(existing.places)}
             \cup ({p.name : p \in Range(extracted.places)} \ {""})
    /\ \A p \in Range(merged.places) : \A k \in DetailKeys :
           p[k] = IF FieldOf(existing.places, p.name, k) # ""
                     THEN FieldOf(existing.places, p.name, k)
                  ELSE IF Carriers(extracted.places, p.name, k) = {} THEN ""
                  ELSE extracted.places[FirstOf(Carriers(extracted.places,
                                                         p.name, k))][k]

\* {name: Old Tower} then {name: Old Tower, ticket: free}: one Old Tower, free
C4_Witness ==
    /\ merges = 2
    /\ existing.places = <<Place("Old Tower", "ticket", "")>>
    /\ extracted.places = <<Place("Old Tower", "ticket", "free")>>
    /\ merged.places = <<Place("Old Tower", "ticket", "free")>>

-----------------------------------------------------------------------------
(* Properties of the quality gate *)

\* the proceed condition (a)-(d) as the specification words it
ProceedCondition(info, count) ==
    /\ \/ Cardinality(ValidRoutes(info)) >= 1
       \/ (Cardinality(ValidRoutes(info)) = 0 /\ Len(info.places) >= 3)
    /\ FoodCount(info) >= 2
    /\ Cardinality(ValidAreas(info)) >= 1
    /\ (count >= 2 => info.transportation.arrival # "")

\* C7: below the round limit the gate proceeds exactly when (a) a route with
\* a daily plan exists or, without one, at least 3 places, (b) at least 2 food
\* items, (c) a named accommodation area, (d) from round 2 on a non-empty
\* arrival; otherwise it asks for more.  The avoid list has no influence.
C7_ProceedExactlyWhen ==
    (gate_out # NotCalled /\ gate_count < gate_max) =>
        /\ gate_out.result
             = IF ProceedCondition(gate_info, gate_count) THEN "enough" ELSE "need_more"
        /\ gate_out = check_info_quality([gate_info EXCEPT !.avoid = <<>>],
                                         gate_count, gate_max)

IsEmptyInfo(info) ==
    /\ info.routes = <<>> /\ info.places = <<>> /\ info.avoid = <<>> /\ info.tips = <<>>
    /\ info.transportation.arrival = "" /\ info.transportation.local = <<>>
    /\ info.accommodation.recommended_areas = <<>> /\ info.accommodation.tips = <<>>
    /\ FoodCount(info) = 0

\* C8: with an entirely empty accumulator the gate asks for more in every
\* round below the limit and proceeds as soon as the round counter reaches it.
C8_EmptyNeedsMoreUntilLimit ==
    (gate_out # NotCalled /\ IsEmptyInfo(gate_info)) =>
        gate_out.result = IF gate_count < gate_max THEN "need_more" ELSE "enough"

C8_Witness ==
    /\ gate_out # NotCalled /\ IsEmptyInfo(gate_info)
    /\ gate_count = gate_max /\ gate_max = MaxGateRounds
    /\ gate_out.result = "enough"

-----------------------------------------------------------------------------
(* Properties of a planning run *)

AtLeastOne(n) == IF n < 1 THEN 1 ELSE n

\* C1 as stated: the number of search_node executions of a run never exceeds
\* max_rounds, whatever max_rounds is.
C1_SearchesWithinMaxRounds == search_runs <= max_searches

\* C1: a run executes search_node at most max(1, max_rounds) times, and the
\* plan step is entered with a round counter within that limit.
C1_SearchesWithinLimit ==
    /\ search_runs <= AtLeastOne(max_searches)
    /\ search_count <= search_runs
    /\ pc = "plan" => (search_count = search_runs /\ search_count >= 1)

C1_Witness ==
    /\ pc = "plan" /\ max_searches = MaxSearches /\ search_runs = MaxSearches
    /\ MissingInfo(extracted_info, search_count) # <<>>

RunCompleted == pc = "end" \/ (pc = "returned" /\ response = "success")

\* C2: plan_node executes at most once, and exactly once in a run that
\* completes; it executes only when check_info_quality returned "enough" for
\* the latest extract; once it has executed no search or extract step follows.
C2_PlanOnceAfterEnough ==
    /\ [](plan_runs <= 1 /\ (RunCompleted => plan_runs = 1))
    /\ [][plan_runs' # plan_runs => (pc = "plan" /\ edge.result = "enough")]_vars
    /\ [][plan_runs >= 1 => (search_runs' = search_runs
                              /\ extract_runs' = extract_runs)]_vars

C2_Witness ==
    /\ pc = "end" /\ plan_runs = 1 /\ search_runs = 2 /\ extract_runs = 2
    /\ edge.result = "enough"

KnownPlaces(info) == {p.name : p \in Range(info.places)}
KnownRoutes(info) == {RouteKey(r) : r \in Range(info.routes)}
KnownAvoid(info) == {a.name : a \in Range(info.avoid)}

\* C5: through every step of a run (extract rounds that merge, that fail in
\* the LLM call or in the merge, that have no notes) the sets of known place
\* names, route keys and avoid-item texts never lose an element.
C5_FactsNeverLost ==
    [][/\ KnownPlaces(extracted_info) \subseteq KnownPlaces(extracted_info')
       /\ KnownRoutes(extracted_info) \subseteq KnownRoutes(extracted_info')
       /\ KnownAvoid(extracted_info) \subseteq KnownAvoid(extracted_info')]_vars

C5_Witness ==
    /\ extract_runs >= 2 /\ pc = "check"
    /\ last_extract \in {"llm_error", "merge_error"}
    /\ KnownPlaces(extracted_info) # {} /\ KnownAvoid(extracted_info) # {}
    /\ <<"note3", 1>> \in KnownRoutes(extracted_info)

\* a query string without its leading blanks
Trim(q) == [lead |-> 0, text |-> q.text]

\* C6: no query string, compared after trimming, appears twice in the history
\* of issued queries (_searched_queries).
C6_NoQueryTwice ==
    \A i, j \in DOMAIN searched_queries :
        Trim(searched_queries[i]) = Trim(searched_queries[j]) => i = j

\* C9: the search round that follows a need_more return of the gate hands the
\* gate's missing list M, unchanged, to query generation (the default list
\* is handed only when the gate reported nothing missing).
C9_GateMissingReachesSearch ==
    (pc = "extract" /\ search_runs >= 2) =>
        (edge.result = "need_more" /\ passed_missing = edge.missing)

\* C10: every invocation of the tool returns one of the three response
\* shapes (success, partial, error); no exception leaves _run.
C10_ThreeShapesNoException ==
    pc = "returned" => response \in {"success", "partial", "error"}

\* C11: invoked with no planning graph wired, the tool returns the structured
\* failure (success = false with an error message) and runs no search,
\* extract or plan step; it never returns a success result.
C11_NoGraphStructuredFailure ==
    (pc = "returned" /\ entry \in Tools /\ ~graph) =>
        /\ response = "error"
        /\ search_runs = 0 /\ extract_runs = 0 /\ plan_runs = 0

\* the accumulator holds at least one fact
HasFacts(info) == info.hasKeys /\ ~IsEmptyInfo(info)

\* C12: when the final planning call fails entirely while the accumulator is
\* non-empty, the tool returns the partial form (success = false, partial =
\* true), not a success result and not a bare failure.
C12_PartialOnPlanFailure ==
    (pc = "returned" /\ entry \in Tools /\ final_result = "fallback_result"
        /\ HasFacts(extracted_info)) => response = "partial"

-----------------------------------------------------------------------------
(* Properties of the plan composer *)

\* plan_node got a parsed answer without usable days
Unusable == plan_result # NoResult /\ plan_output.kind = "plan" /\ plan_output.days = <<>>

\* C13: when the planning LLM output has no days, the plan of plan_node has
\* a non-empty days list whenever the accumulator holds a route or a place,
\* also when the chosen route has an empty daily_plan while places exist.
C13_FallbackDaysNonEmpty ==
    (Unusable /\ (plan_extracted.routes # <<>> \/ plan_extracted.places # <<>>)) =>
        plan_result.days # <<>>

\* C14: when the planning LLM output is unusable and the accumulator holds no
\* route and no place, the final result has exactly user.days day entries,
\* one per requested day, each with an empty schedule.
C14_SkeletonPerRequestedDay ==
    (plan_result # NoResult /\ plan_output.days = <<>>
        /\ plan_extracted.routes = <<>> /\ plan_extracted.places = <<>>) =>
        /\ Len(plan_result.days) = user_days
        /\ \A d \in DOMAIN plan_result.days :
               plan_result.days[d].day = d /\ plan_result.days[d].schedule = <<>>

-----------------------------------------------------------------------------
(* Properties of the JSON recovery *)

\* C15: _safe_parse_json always returns a mapping: a parsed JSON object or
\* the caller's default, for every text (empty, prose, a JSON array, a bare
\* number or null, a fenced block that holds no object).
C15_AlwaysReturnsMapping ==
    parse_out # NotParsed =>
        /\ parse_out.value.type = "dict"
        /\ parse_out.attempt = 0 => parse_out.value = DefaultMapping

\* the value a member was written to have
MeantValue(kind) ==
    CASE kind = "num" -> JNum(<<"1">>)
      [] kind = "str" -> JStr(<<"a", "b">>)
      [] kind = "url" -> JStr(<<"a", ":", "/", "/", "b">>)
      [] kind = "commastr" -> JStr(<<"a", ",", "}">>)
      [] kind = "list" -> JArr(<<JNum(<<"1">>), JNum(<<"2">>)>>)

\* the object a document was written to be
Meant(doc) ==
    JObj([i \in DOMAIN doc.values |->
             [key |-> <<Keys[i]>>, value |-> MeantValue(doc.values[i])]])

\* C16: the correct object is returned for (a) valid JSON inside a fenced
\* block, (b) JSON with trailing commas before ] or }, (c) JSON written with
\* single quotes; the default for (d) prose without JSON; the result is the
\* first of the four attempts (as-is, fixed, quotes replaced, line by line)
\* that parses.
C16_RecoversObject ==
    parse_out # NotParsed =>
        /\ (parse_doc.kind = "object" /\ parse_doc.quote = "\"" /\ ~parse_doc.trailing
               /\ parse_doc.wrapper \in {"fenced_json", "fenced"}) =>
              (parse_out.attempt = 1 /\ parse_out.value = Meant(parse_doc))
        /\ (parse_doc.kind = "object" /\ parse_doc.quote = "\"" /\ parse_doc.trailing
               /\ parse_doc.values # <<>>) =>
              (parse_out.attempt = 2 /\ parse_out.value = Meant(parse_doc))
        /\ (parse_doc.kind = "object" /\ parse_doc.quote = "'" /\ ~parse_doc.trailing
               /\ parse_doc.values # <<>>) =>
              (parse_out.attempt = 3 /\ parse_out.value = Meant(parse_doc))
        /\ parse_doc.kind \in {"prose", "prose_braces"} =>
              (parse_out.attempt = 0 /\ parse_out.value = DefaultMapping)


-----------------------------------------------------------------------------
RECURSIVE Logged(_, _)
\* the tokens of the logged calls whose stage is in S
Logged(log, S) ==
    IF log = <<>> THEN 0
    ELSE (IF Head(log)[1] \in S THEN Head(log)[2] ELSE 0) + Logged(Tail(log), S)

\* C17: for any sequence of consume(stage, n) calls with n >= 0 and any
\* stage name, consumed[stage] never decreases; every call is accepted, so
\* consumed[stage] is the sum of the amounts of the calls made for that stage
\* and get_total_consumed() is the sum over all stages, also for calls made
\* when the stage allowance or the total ceiling was already exceeded; and
\* is_over_budget() is true exactly when that total exceeds total_budget.
C17_ConsumeAccumulates ==
    /\ [](/\ \A s \in Stages :
               consumed_get(budget.consumed, s) = Logged(budget_log, {s})
          /\ DOMAIN budget.consumed = {c[1] : c \in Range(budget_log)}
          /\ get_total_consumed(budget) = Logged(budget_log, Stages)
          /\ get_total_consumed(budget)
                = SumValues([s \in Stages |-> consumed_get(budget.consumed, s)],
                            Stages)
          /\ is_over_budget(budget)
                <=> Logged(budget_log, Stages) > budget.total_budget)
    /\ [][\A s \in Stages : consumed_get(budget'.consumed, s)
                                >= consumed_get(budget.consumed, s)]_vars

\* a call was made for a stage already over its allowance while the total
\* ceiling was already exceeded, and it was recorded
C17_Witness ==
    /\ Len(budget_log) = MaxConsumes
    /\ LET before == SubSeq(budget_log, 1, MaxConsumes - 1)
           last == budget_log[MaxConsumes]
       IN  /\ last[1] = "extract" /\ last[2] > 0
           /\ Logged(before, {"extract"}) > budget.extract
           /\ Logged(before, Stages) > budget.total_budget
           /\ budget.total_budget > 0
           /\ "search" \in DOMAIN budget.consumed
    /\ is_over_budget(budget)
    /\ get_remaining(budget, "extract") = 0
    /\ get_total_remaining(budget) = 0


-----------------------------------------------------------------------------
\* C20: every note filter_and_compress returns has final_score >= 0.15, on
\* the main selection path and on the required-categories fallback path;
\* when required_categories is not given the result holds at most max_notes
\* notes in non-increasing score order; an empty input, or an input whose
\* notes are all below the threshold, yields an empty list.
C20_OnlyNotesAboveThreshold ==
    filter_out.called =>
        /\ \A i \in DOMAIN filter_out.notes : filter_out.notes[i].score >= MinScore
        /\ filter_required = <<>> =>
              /\ Len(filter_out.notes) <= filter_max
              /\ \A i \in 1 .. Len(filter_out.notes) - 1 :
                     filter_out.notes[i].score >= filter_out.notes[i + 1].score
        /\ (\A i \in DOMAIN filter_notes : filter_notes[i].final_score < MinScore)
              => filter_out.notes = <<>>


-----------------------------------------------------------------------------
RECURSIVE NotesOfOthers(_, _)
\* the notes of the queries from i on that did not fail, in query order
NotesOfOthers(replies, i) ==
    IF i > Len(replies) THEN <<>>
    ELSE (IF replies[i].kind \in FailureKinds THEN <<>> ELSE replies[i].notes)
         \o NotesOfOthers(replies, i + 1)

\* the queries answered by the provider, not by the cache, in query order
Uncached(replies) ==
    SelectSeq([i \in 1 .. Len(replies) |-> i],
              LAMBDA i : replies[i].kind # "cached")

-----------------------------------------------------------------------------
\* C19: whenever the LLM-based query generation fails, in round 1 and in
\* every round >= 2 for any missing-category list, the template fallback
\* returns between 2 and 4 non-empty query strings (the destination being
\* non-empty).
C19_FallbackTwoToFourQueries ==
    gen_out.called =>
        /\ Len(gen_out.queries) \in 2 .. 4
        /\ \A i \in DOMAIN gen_out.queries : gen_out.queries[i].text # ""


-----------------------------------------------------------------------------
\* a text float() does not accept
Malformed(value) ==
    /\ value.type = "str"
    /\ Strip(value.chars) # <<>>
    /\ safe_int_str_try(Strip(value.chars)).raised = "ValueError"

\* C21: _safe_int returns an integer and never raises, for every input
\* value: None, integers, floats (NaN and the infinities included), numeric
\* strings, strings with a k / w suffix, and malformed strings such as 'k',
\* 'inf' or '1e999'; malformed input yields 0.
C21_SafeIntNeverRaises ==
    likes_out.called =>
        /\ likes_out.raised = ""
        /\ Malformed(likes_in) => likes_out.value = 0


-----------------------------------------------------------------------------
\* C22: of two notes identical except that one holds five more high-value
\* keywords, scored by evaluators in the same state, the richer note has the
\* strictly higher final_score, also when the keywords of the base note
\* already reach the cap of their contribution.
C22_RicherNoteScoresHigher ==
    score_out.called => ScoreLess(score_out.base, score_out.richer)


-----------------------------------------------------------------------------
\* a bare location name: no leading verb, no arrow between stops
BarePoi(poi) == (poi # <<>> => poi[1] \notin Verbs) /\ "arrow" \notin Range(poi)

\* C23: in the final plan, from the LLM or from the deterministic fallback,
\* every schedule item's poi is a bare location name (a leading verb is
\* stripped and moved to activity, stops joined by arrows are reduced to the
\* first stop), its duration is a non-empty string, and a tips list has been
\* joined into one string.
C23_ScheduleItemsNormalized ==
    sched_out.called =>
        \A i \in DOMAIN sched_out.items :
            /\ BarePoi(sched_out.items[i].poi)
            /\ sched_out.items[i].duration # <<>>
            /\ (sched_in.tips.kind = "list" /\ sched_out.by # "fallback")
                  => sched_out.items[i].tips = JoinTips(sched_in.tips.items)


-----------------------------------------------------------------------------
-----------------------------------------------------------------------------
\* C28: after any number of search rounds no two notes of search_results
\* share a title, and a note once kept is never removed or replaced: the
\* list only grows at its end, the first note seen with a title stays.
C28_NotesUniqueAndKept ==
    /\ [](\A i, j \in DOMAIN notes_acc :
             notes_acc[i].title = notes_acc[j].title => i = j)
    /\ [][/\ Len(notes_acc') >= Len(notes_acc)
          /\ SubSeq(notes_acc', 1, Len(notes_acc)) = notes_acc]_vars

\* a later round brought a kept title again, with another content
C28_Witness ==
    /\ notes_round >= 2
    /\ \E i \in DOMAIN notes_last, j \in DOMAIN notes_acc :
          /\ notes_last[i].title = notes_acc[j].title
          /\ notes_last[i].content # notes_acc[j].content


-----------------------------------------------------------------------------
\* C29: a round whose query generation returns an empty list is a no-op:
\* search_results, the history of searched queries and the accumulator are
\* unchanged, only the round counter advances, no query is searched, and the
\* run goes on to extract and to the gate.
C29_EmptyQueriesRoundIsNoOp ==
    /\ [][(pc = "search" /\ search_runs' # search_runs /\ round_queries' = <<>>)
             => /\ search_results' = search_results
                /\ searched_queries' = searched_queries
                /\ extracted_info' = extracted_info
                /\ missing_info' = missing_info
                /\ search_count' = search_count + 1
                /\ pc' = "extract"]_vars
    /\ [][(pc = "extract" /\ round_queries = <<>>) => pc' = "check"]_vars

\* extract has run after a round without queries, with notes kept from before
C29_Witness ==
    /\ pc = "check" /\ round_queries = <<>>
    /\ search_runs >= 2 /\ extract_runs = search_runs
    /\ search_results # <<>> /\ searched_queries # <<>>


-----------------------------------------------------------------------------
\* C30: for every content and every max_chars >= 0, _compress_content
\* returns a text of at most max_chars characters, the truncated paragraph
\* and the newlines of the join included.
C30_CompressedWithinMaxChars ==
    comp_out.called => comp_out.len <= comp_max


-----------------------------------------------------------------------------
\* no call is under way
AtRest == \A c \in Callers : store_call[c].pc = "idle"

\* _order lists exactly the stored plan ids, each once
OrderListsPlans(hash) ==
    /\ {hget_order(hash)[i] : i \in DOMAIN hget_order(hash)} = hash.plans
    /\ NoDup(hget_order(hash))

\* C27: after any sequence of create_plan / set_active_plan / delete_plan
\* calls of one caller, with any plan_id (ids never created and the reserved
\* names _active and _order included), the active pointer is empty or the id
\* of a stored plan, _order lists exactly the stored plan ids, a new plan
\* becomes the active one, and deleting the active plan moves the pointer to
\* the first plan left in _order.
C27_PointerAndOrderConsistent ==
    /\ [](AtRest =>
             /\ store_hash.active = "" \/ store_hash.active \in store_hash.plans
             /\ OrderListsPlans(store_hash))
    /\ [][(store_call[1].pc = "create_exec" /\ store_call'[1].pc = "idle")
             => store_hash'.active = store_call[1].plan_id]_vars
    /\ [][(store_call[1].pc = "delete_exec" /\ store_call'[1].pc = "idle"
           /\ store_hash.active = store_call[1].plan_id)
             => store_hash'.active = IF hget_order(store_hash') # <<>>
                                      THEN hget_order(store_hash')[1] ELSE ""]_vars

\* C26: when two create_plan calls (or a create_plan and a delete_plan) for
\* the same session run side by side, no update of _order is lost: once both
\* have returned, every stored plan id is in _order exactly once, so
\* list_plans shows every plan.
C26_NoOrderUpdateLost ==
    AtRest => OrderListsPlans(store_hash)


-----------------------------------------------------------------------------
\* C25: when chat requests for different sessions are served interleaved
\* on the shared tool instance (the set_session_id of one request falling
\* between the set_session_id and the tool run of another), every tool run
\* uses the session id of the request it belongs to.
C25_ToolRunUsesOwnSession ==
    \A r \in Requests : \A i \in DOMAIN chat_req[r].used :
        chat_req[r].used[i] = chat_req[r].session

=============================================================================
